---- MODULE Spec2Model ----
(***************************************************************************)
(* QuantaQueue: closed-form queueing formulas (M/M/1, M/M/s, M/M/1/k,      *)
(* M/M/s/k, M/G/1), the basic utilities they use, the cost layer and the  *)
(* model dispatcher.                                                       *)
(*                                                                         *)
(* The library is a family of pure functions.  Every function is an       *)
(* operator below; a specification draws the arguments of a call in Init  *)
(* and has one action per public function, which records the outcome of   *)
(* the call in `ret`.                                                      *)
(*                                                                         *)
(* Numbers.  A JavaScript number is modelled as an exact rational n/d in  *)
(* lowest terms, or one of NaN, +Infinity, -Infinity.  A thrown Error is   *)
(* the value Throw(msg); `msg` is the chain of messages, outermost        *)
(* wrapper first.  Rounding to the internal precision of 15 decimals      *)
(* changes a value by less than 5e-16, which is below the resolution of   *)
(* the model: Round(x, 15) keeps x.                                        *)
(***************************************************************************)
EXTENDS Integers, Sequences, FiniteSets, TLC

VARIABLES call, args, ret

vars == <<call, args, ret>>

----------------------------------------------------------------------------
(* Bounds of the explored inputs *)

MaxRate == 3
MaxServers == 2
MaxIter == 2
MaxLimit == 2
MaxSum == 3

(* Program constants *)

DefaultDecimals == 4
InternalDecimals == 15
MaxDecimals == 15

----------------------------------------------------------------------------
(* Numeric kernel: values *)

RECURSIVE GCD(_, _)
GCD(a, b) == IF b = 0 THEN a ELSE GCD(b, a % b)

AbsI(a) == IF a < 0 THEN -a ELSE a

Num(a, b) ==
  LET g == GCD(AbsI(a), AbsI(b))
      sg == IF b < 0 THEN -1 ELSE 1
  IN [t |-> "num", n |-> sg * (a \div g), d |-> sg * (b \div g), msg |-> <<>>]

I(a) == [t |-> "num", n |-> a, d |-> 1, msg |-> <<>>]

NaN == [t |-> "nan", n |-> 0, d |-> 1, msg |-> <<>>]
PInf == [t |-> "inf", n |-> 1, d |-> 1, msg |-> <<>>]
NInf == [t |-> "inf", n |-> -1, d |-> 1, msg |-> <<>>]
Null == [t |-> "null", n |-> 0, d |-> 1, msg |-> <<>>]

Throw(m) == [t |-> "err", n |-> 0, d |-> 1, msg |-> <<m>>]
Wrap(ctx, e) == [e EXCEPT !.msg = <<ctx>> \o @]

IsNum(v) == v.t = "num"
IsErr(v) == v.t = "err"
IsNaN(v) == v.t = "nan"
IsInf(v) == v.t = "inf"
IsNull(v) == v.t = "null"
IsZero(v) == v.t = "num" /\ v.n = 0
IsNeg(v) == v.t \in {"num", "inf"} /\ v.n < 0
Sign(v) == IF v.n < 0 THEN -1 ELSE IF v.n > 0 THEN 1 ELSE 0
Inf(s) == IF s < 0 THEN NInf ELSE PInf

(* Comparison of two finite numbers *)
Lt(x, y) == x.n * y.d < y.n * x.d
Le(x, y) == x.n * y.d <= y.n * x.d

----------------------------------------------------------------------------
(* Numeric kernel: the arithmetic of mathjs `evaluate` on numbers *)

(* An operator of the library receives values: every operand is computed   *)
(* once, before the operator is applied.  Val picks the result out of the  *)
(* singleton built from the computed operands.                             *)
Val(S) == CHOOSE v \in S : TRUE

Neg(a) ==
  LET neg(x) == CASE IsNum(x) -> [x EXCEPT !.n = -x.n]
                  [] IsInf(x) -> Inf(-x.n)
                  [] OTHER -> x
  IN Val({neg(x) : x \in {a}})

Abs(a) == Val({IF IsNeg(x) THEN Neg(x) ELSE x : x \in {a}})

Add(a, b) ==
  LET add(x, y) ==
        CASE IsErr(x) -> x
          [] IsErr(y) -> y
          [] IsNaN(x) \/ IsNaN(y) -> NaN
          [] IsInf(x) /\ IsInf(y) -> IF x.n = y.n THEN x ELSE NaN
          [] IsInf(x) -> x
          [] IsInf(y) -> y
          [] OTHER -> Num(x.n * y.d + y.n * x.d, x.d * y.d)
  IN Val({add(x, y) : x \in {a}, y \in {b}})

Sub(x, y) == Add(x, Neg(y))

Mul(a, b) ==
  LET mul(x, y) ==
        CASE IsErr(x) -> x
          [] IsErr(y) -> y
          [] IsNaN(x) \/ IsNaN(y) -> NaN
          [] IsInf(x) \/ IsInf(y) ->
               IF IsZero(x) \/ IsZero(y) THEN NaN ELSE Inf(Sign(x) * Sign(y))
          [] OTHER -> Num(x.n * y.n, x.d * y.d)
  IN Val({mul(x, y) : x \in {a}, y \in {b}})

Div(a, b) ==
  LET div(x, y) ==
        CASE IsErr(x) -> x
          [] IsErr(y) -> y
          [] IsNaN(x) \/ IsNaN(y) -> NaN
          [] IsInf(x) /\ IsInf(y) -> NaN
          [] IsInf(x) -> Inf(Sign(x) * (IF IsNeg(y) THEN -1 ELSE 1))
          [] IsInf(y) -> I(0)
          [] IsZero(y) -> IF IsZero(x) THEN NaN ELSE Inf(Sign(x))
          [] OTHER -> Num(x.n * y.d, x.d * y.n)
  IN Val({div(x, y) : x \in {a}, y \in {b}})

RECURSIVE IPow(_, _)
IPow(b, e) == IF e = 0 THEN 1 ELSE b * IPow(b, e - 1)

(* base ^ exponent for an integer exponent, as Math.pow *)
Pow(a, e) ==
  LET pow(x) ==
        CASE IsErr(x) -> x
          [] e = 0 -> I(1)
          [] IsNaN(x) -> NaN
          [] IsInf(x) ->
               IF e < 0 THEN I(0)
               ELSE IF x.n < 0 /\ e % 2 = 1 THEN NInf ELSE PInf
          [] IsZero(x) -> IF e < 0 THEN PInf ELSE I(0)
          [] e > 0 -> Num(IPow(x.n, e), IPow(x.d, e))
          [] OTHER -> Num(IPow(x.d, -e), IPow(x.n, -e))
  IN Val({pow(x) : x \in {a}})

(* `${x}^${e}` with no parentheses around x: the unary minus of a negative *)
(* x binds weaker than ^, so the text reads -(|x|^e)                       *)
UPow(a, e) == Val({IF IsNeg(x) THEN Neg(Pow(Abs(x), e)) ELSE Pow(x, e) : x \in {a}})

RECURSIVE IFact(_)
IFact(m) == IF m <= 0 THEN 1 ELSE m * IFact(m - 1)

(* `${m}!` for an integer m: a negative m reads -(|m|!) *)
UFact(m) == IF m < 0 THEN I(-IFact(-m)) ELSE I(IFact(m))

(* mathjs round(x, decimals): decimals must be an integer in 0..15; half   *)
(* away from zero; NaN and the infinities are returned unchanged           *)
RoundNum(x, dec) ==
  LET p == IPow(10, dec)
      a == AbsI(x.n)
      ip == a \div x.d
      fr == a % x.d
      q == (2 * fr * p + x.d) \div (2 * x.d)
      sg == IF x.n < 0 THEN -1 ELSE 1
  IN Num(sg * (ip * p + q), p)

Round(a, dec) ==
  LET round(x) ==
        CASE IsErr(x) -> x
          [] dec < 0 \/ dec > MaxDecimals ->
               Throw("Number of decimals in function round must be an integer from 0 to 15 inclusive")
          [] ~IsNum(x) -> x
          [] dec = InternalDecimals -> x
          [] OTHER -> RoundNum(x, dec)
  IN Val({round(x) : x \in {a}})

----------------------------------------------------------------------------
(* Basic utilities *)

(* try { body } catch (error) { throw Error(`${ctx}: ${error}`) } *)
Catch(ctx, r) == Val({IF IsErr(x) THEN Wrap(ctx, x) ELSE x : x \in {r}})

CtxRho == "System utilization factor error."
CtxSummation == "Summation error."
MsgMuZero == "The parameter 'mu' cannot be equal to zero (0)."
MsgServerSize == "The parameter 'serverSize' cannot be equal to zero (0) or minor to one (serverSize < 1)."
MsgLimitZero == "The parameter 'limit' cannot be equal to zero (0)."
MsgIterNeg == "The parameter 'iteration' cannot be lower than zero (0)."
MsgLimitLowS == "The parameter 'limit' cannot be lower than the server size."
MsgLimitLowS1 == "The parameter 'limit' cannot be lower than the server size plus 1."

Rho_ServerSizeFirst(lambda, mu, serverSize, decimals) ==
  IF serverSize <= 0 THEN Wrap(CtxRho, Throw(MsgServerSize))
  ELSE IF IsZero(mu) THEN Wrap(CtxRho, Throw(MsgMuZero))
  ELSE LET rho == Div(lambda, Mul(mu, I(serverSize)))
       IN Catch(CtxRho, Round(rho, decimals))

Rho(lambda, mu, serverSize, decimals) ==
  IF IsZero(mu) THEN Wrap(CtxRho, Throw(MsgMuZero))
  ELSE IF serverSize <= 0 THEN Wrap(CtxRho, Throw(MsgServerSize))
  ELSE LET rho == Div(lambda, Mul(mu, I(serverSize)))
       IN Catch(CtxRho, Round(rho, decimals))

(* Expressions handed to Summation.  `a`, `b`, `s` are the numbers the     *)
(* caller has written into the text.                                       *)
ExprN == [kind |-> "n", a |-> I(0), b |-> I(1), s |-> 0]
ExprNSquare == [kind |-> "n^2", a |-> I(0), b |-> I(1), s |-> 0]
ExprHalf == [kind |-> "(n+1)/2", a |-> I(0), b |-> I(1), s |-> 0]
ExprX == [kind |-> "x", a |-> I(0), b |-> I(1), s |-> 0]
ExprPowFact(l, mu) == [kind |-> "(a/b)^n/(n!)", a |-> l, b |-> mu, s |-> 0]
ExprPowShift(l, mu, sv) == [kind |-> "((a/(s*b))^(n-s))", a |-> l, b |-> mu, s |-> sv]

EvalAt_SymbolZero(e, i) ==
  CASE e.kind = "n" -> I(i)
    [] e.kind = "n^2" -> UPow(I(i), 2)
    [] e.kind = "(n+1)/2" -> Div(Add(I(i), I(1)), I(2))
    [] e.kind = "x" -> I(0)
    [] e.kind = "(a/b)^n/(n!)" -> Div(Pow(Div(e.a, e.b), i), UFact(i))
    [] e.kind = "((a/(s*b))^(n-s))" -> Pow(Div(e.a, Mul(I(e.s), e.b)), i - e.s)

(* parse(expression.replaceAll('n', String(n))).compile().evaluate(): the   *)
(* text of the step index replaces n, so a negative index brings its own   *)
(* unary minus into the expression                                         *)
EvalAt(e, i) ==
  CASE e.kind = "n" -> I(i)
    [] e.kind = "n^2" -> UPow(I(i), 2)
    [] e.kind = "(n+1)/2" -> Div(Add(I(i), I(1)), I(2))
    [] e.kind = "x" -> Throw("Undefined symbol x")
    [] e.kind = "(a/b)^n/(n!)" -> Div(Pow(Div(e.a, e.b), i), UFact(i))
    [] e.kind = "((a/(s*b))^(n-s))" -> Pow(Div(e.a, Mul(I(e.s), e.b)), i - e.s)

RECURSIVE SumLoop(_, _, _, _)
SumLoop(i, upperLimit, expression, sum) ==
  IF i > upperLimit \/ IsErr(sum) THEN sum
  ELSE SumLoop(i + 1, upperLimit, expression, Add(sum, EvalAt(expression, i)))

Summation_FromOne(lowerLimit, upperLimit, expression, decimals) ==
  LET sum == SumLoop(lowerLimit, upperLimit, expression, I(1))
  IN Catch(CtxSummation, Round(sum, decimals))

Summation(lowerLimit, upperLimit, expression, decimals) ==
  LET sum == SumLoop(lowerLimit, upperLimit, expression, I(0))
  IN Catch(CtxSummation, Round(sum, decimals))

MsgValZero == "The parameter 'val' cannot be equal to zero (0)."
CtxInverse == "Inverse function error."

Inverse_WholeNumber(val, decimals) ==
  IF IsZero(val) THEN Throw(MsgValZero)
  ELSE Catch(CtxInverse, Round(Div(I(1), val), 0))

(* the zero test stands before the try: its error is not wrapped *)
Inverse(val, decimals) ==
  IF IsZero(val) THEN Throw(MsgValZero)
  ELSE Catch(CtxInverse, Round(Div(I(1), val), decimals))

MsgTotalZero == "The parameter 'total' cannot be equal to zero (0)."
CtxPercent == "Error in convert value = '${value}' to percent."
PercentTypes == {"true", "false", "MULTIPLY", "DIVISION"}

(* `${x}%`: the text of a number followed by the percent sign; a text is   *)
(* not a number                                                            *)
PercentText(x) == [x EXCEPT !.t = @ \o "%"]

Percent_TrueDivides(value, total, type, decimals) ==
  IF IsZero(total) THEN Wrap(CtxPercent, Throw(MsgTotalZero))
  ELSE LET multiply == type = "MULTIPLY"
           res == IF multiply THEN Mul(value, total)
                  ELSE Mul(Div(value, total), I(100))
       IN Val({IF IsErr(x) THEN Wrap(CtxPercent, x) ELSE PercentText(x) :
                 x \in {Round(res, decimals)}})

Percent(value, total, type, decimals) ==
  IF IsZero(total) THEN Wrap(CtxPercent, Throw(MsgTotalZero))
  ELSE LET multiply == type = "true" \/ type = "MULTIPLY"
           res == IF multiply THEN Mul(value, total)
                  ELSE Mul(Div(value, total), I(100))
       IN Val({IF IsErr(x) THEN Wrap(CtxPercent, x) ELSE PercentText(x) :
                 x \in {Round(res, decimals)}})

MsgTargetUnit == "The \"targetUnit\" variable cannot be minor or equal to zero (0) (targetUnit <= 0)."
MsgSourceUnit == "The \"sourceUnit\" variable cannot be equal to zero (0)."
MsgSourceValue == "The \"sourceValue\" variable cannot be equal to zero (0)."
CtxConvert == "Calculate error."

Convert_NoSourceValueCheck(sourceValue, sourceUnit, targetUnit, decimals) ==
  IF IsNeg(targetUnit) \/ IsZero(targetUnit)
    THEN Wrap(CtxConvert, Throw(MsgTargetUnit))
  ELSE IF IsZero(sourceUnit) THEN Wrap(CtxConvert, Throw(MsgSourceUnit))
  ELSE Catch(CtxConvert,
         Round(Mul(Div(I(1), Mul(sourceValue, sourceUnit)), targetUnit), decimals))

Convert(sourceValue, sourceUnit, targetUnit, decimals) ==
  IF IsNeg(targetUnit) \/ IsZero(targetUnit)
    THEN Wrap(CtxConvert, Throw(MsgTargetUnit))
  ELSE IF IsZero(sourceUnit) THEN Wrap(CtxConvert, Throw(MsgSourceUnit))
  ELSE IF IsZero(sourceValue) THEN Wrap(CtxConvert, Throw(MsgSourceValue))
  ELSE Catch(CtxConvert,
         Round(Mul(Div(I(1), Mul(sourceValue, sourceUnit)), targetUnit), decimals))

----------------------------------------------------------------------------
(* Single server: M/M/1 *)

MsgMuZeroSS == "The parameter 'mu' cannot be equal to 0."
MsgIterLow1 == "The parameter 'iteration' cannot be lower than 1."

SSInitialProbability(lambda, mu, decimals) ==
  Catch("Single Server Initial Probability error",
    IF IsZero(mu) THEN Throw(MsgMuZeroSS)
    ELSE LET rho == Rho(lambda, mu, 1, InternalDecimals)
         IN Round(Sub(I(1), rho), decimals))

SSNProbability_AllowsZero(lambda, mu, iteration, decimals) ==
  Catch("Single Server n Probability error",
    IF IsZero(mu) THEN Throw(MsgMuZeroSS)
    ELSE IF iteration < 0 THEN Throw(MsgIterLow1)
    ELSE Val({IF IsErr(rho) THEN rho
              ELSE Round(Mul(UPow(rho, iteration), po), decimals)
              : rho \in {Rho(lambda, mu, 1, InternalDecimals)},
                po \in {SSInitialProbability(lambda, mu, InternalDecimals)}}))

SSNProbability(lambda, mu, iteration, decimals) ==
  Catch("Single Server n Probability error",
    IF IsZero(mu) THEN Throw(MsgMuZeroSS)
    ELSE IF iteration < 1 THEN Throw(MsgIterLow1)
    ELSE Val({IF IsErr(rho) THEN rho
              ELSE Round(Mul(UPow(rho, iteration), po), decimals)
              : rho \in {Rho(lambda, mu, 1, InternalDecimals)},
                po \in {SSInitialProbability(lambda, mu, InternalDecimals)}}))

SSSClientEx(lambda, mu, decimals) ==
  Catch("Expected value of the number of customers in the system error",
    IF IsZero(mu) THEN Throw(MsgMuZeroSS)
    ELSE Val({Round(Div(rho, Sub(I(1), rho)), decimals)
              : rho \in {Rho(lambda, mu, 1, InternalDecimals)}}))

SSQClientEx_NoSquare(lambda, mu, decimals) ==
  Catch("Expected value of the number of customers in the queue error",
    IF IsZero(mu) THEN Throw(MsgMuZeroSS)
    ELSE Val({Round(Div(rho, Sub(I(1), rho)), decimals)
              : rho \in {Rho(lambda, mu, 1, InternalDecimals)}}))

SSQClientEx(lambda, mu, decimals) ==
  Catch("Expected value of the number of customers in the queue error",
    IF IsZero(mu) THEN Throw(MsgMuZeroSS)
    ELSE Val({Round(Div(UPow(rho, 2), Sub(I(1), rho)), decimals)
              : rho \in {Rho(lambda, mu, 1, InternalDecimals)}}))

SSSTimeEx(lambda, mu, decimals) ==
  Catch("Average waiting time in the system error",
    IF IsZero(mu) THEN Throw(MsgMuZeroSS)
    ELSE Round(Div(I(1), Sub(mu, lambda)), decimals))

SSQTimeEx(lambda, mu, decimals) ==
  Catch("Average waiting time in the queue error",
    IF IsZero(mu) THEN Throw(MsgMuZeroSS)
    ELSE Val({Round(Div(rho, Mul(mu, Sub(I(1), rho))), decimals)
              : rho \in {Rho(lambda, mu, 1, InternalDecimals)}}))

----------------------------------------------------------------------------
(* Single server, finite capacity: M/M/1/k *)

MsgRhoOne == "The utilization factor 'rho' is equal to one (1). Cannot compute."

MMKQtyServerBusy_StrictCutoff(lambda, mu, iteration, limit, decimals) ==
  LET n == iteration
      k == limit
  IN Catch("M/M/1/k Quantity of Servers Busy error",
       IF IsZero(mu) THEN Throw(MsgMuZero)
       ELSE IF k = 0 THEN Throw(MsgLimitZero)
       ELSE IF n < 0 THEN Throw(MsgIterNeg)
       ELSE IF n < k THEN Round(Pow(Div(lambda, mu), n), decimals)
       ELSE I(0))

MMKQtyServerBusy(lambda, mu, iteration, limit, decimals) ==
  LET n == iteration
      k == limit
  IN Catch("M/M/1/k Quantity of Servers Busy error",
       IF IsZero(mu) THEN Throw(MsgMuZero)
       ELSE IF k = 0 THEN Throw(MsgLimitZero)
       ELSE IF n < 0 THEN Throw(MsgIterNeg)
       ELSE IF n <= k THEN Round(Pow(Div(lambda, mu), n), decimals)
       ELSE I(0))

MMKInitialProbability_ShortSeries(lambda, mu, limit, decimals) ==
  LET k == limit
  IN Catch("M/M/1/k Initial Probability error",
       IF IsZero(mu) THEN Throw(MsgMuZero)
       ELSE IF k = 0 THEN Throw(MsgLimitZero)
       ELSE Val({IF rho = I(1) THEN Throw(MsgRhoOne)
                 ELSE Round(Div(Sub(I(1), rho), Sub(I(1), UPow(rho, k))), decimals)
                 : rho \in {Rho(lambda, mu, 1, InternalDecimals)}}))

MMKInitialProbability(lambda, mu, limit, decimals) ==
  LET k == limit
  IN Catch("M/M/1/k Initial Probability error",
       IF IsZero(mu) THEN Throw(MsgMuZero)
       ELSE IF k = 0 THEN Throw(MsgLimitZero)
       ELSE Val({IF rho = I(1) THEN Throw(MsgRhoOne)
                 ELSE Round(Div(Sub(I(1), rho), Sub(I(1), UPow(rho, k + 1))), decimals)
                 : rho \in {Rho(lambda, mu, 1, InternalDecimals)}}))

MMKNProbability(lambda, mu, iteration, limit, decimals) ==
  LET n == iteration
      k == limit
  IN Catch("M/M/1/k n Probability error",
       IF IsZero(mu) THEN Throw(MsgMuZero)
       ELSE IF k = 0 THEN Throw(MsgLimitZero)
       ELSE Val({IF IsErr(rho) THEN rho
                 ELSE Round(Mul(po, UPow(rho, n)), decimals)
                 : rho \in {Rho(lambda, mu, 1, InternalDecimals)},
                   po \in {MMKInitialProbability(lambda, mu, k, InternalDecimals)}}))

MMKSClientEx(lambda, mu, limit, decimals) ==
  LET k == limit
  IN Catch("M/M/1/k Server Clients Expected error",
       IF IsZero(mu) THEN Throw(MsgMuZero)
       ELSE IF k = 0 THEN Throw(MsgLimitZero)
       ELSE Val({Val({Round(Sub(Div(rho, Sub(I(1), rho)),
                                Div(Mul(I(k + 1), rk), Sub(I(1), rk))), decimals)
                      : rk \in {UPow(rho, k + 1)}})
                 : rho \in {Rho(lambda, mu, 1, InternalDecimals)}}))

MMKQClientEx_NoP0(lambda, mu, limit, decimals) ==
  LET k == limit
  IN Catch("M/M/1/k Queue Clients Expected error",
       IF IsZero(mu) THEN Throw(MsgMuZero)
       ELSE IF k = 0 THEN Throw(MsgLimitZero)
       ELSE Val({IF IsErr(Ls) THEN Ls
                 ELSE Round(Sub(Ls, rho), decimals)
                 : Ls \in {MMKSClientEx(lambda, mu, k, InternalDecimals)},
                   rho \in {Rho(lambda, mu, 1, InternalDecimals)}}))

MMKQClientEx(lambda, mu, limit, decimals) ==
  LET k == limit
  IN Catch("M/M/1/k Queue Clients Expected error",
       IF IsZero(mu) THEN Throw(MsgMuZero)
       ELSE IF k = 0 THEN Throw(MsgLimitZero)
       ELSE Val({IF IsErr(Ls) THEN Ls
                 ELSE Round(Sub(Ls, Sub(I(1), po)), decimals)
                 : Ls \in {MMKSClientEx(lambda, mu, k, InternalDecimals)},
                   po \in {MMKInitialProbability(lambda, mu, k, InternalDecimals)}}))

MMKQTimeEx(lambda, mu, limit, decimals) ==
  LET k == limit
  IN Catch("M/M/1/k Queue Time Expected error",
       IF IsZero(mu) THEN Throw(MsgMuZero)
       ELSE IF k = 0 THEN Throw(MsgLimitZero)
       ELSE LET Lq == MMKQClientEx(lambda, mu, k, InternalDecimals)
            IN Round(Div(Lq, lambda), decimals))

MMKSTimeEx(lambda, mu, limit, decimals) ==
  LET k == limit
  IN Catch("M/M/1/k Server Time Expected error",
       IF IsZero(mu) THEN Throw(MsgMuZero)
       ELSE IF k = 0 THEN Throw(MsgLimitZero)
       ELSE LET Ls == MMKSClientEx(lambda, mu, k, InternalDecimals)
            IN Round(Div(Ls, lambda), decimals))

----------------------------------------------------------------------------
(* Single server, general service: M/G/1 *)

MsgIterLowOne == "The parameter 'n' cannot be lower than one (1)."

MGInitialProbability(lambda, mu, decimals) ==
  Catch("M/G/1 Initial Probability error",
    IF IsZero(mu) THEN Throw(MsgMuZero)
    ELSE LET rho == Rho(lambda, mu, 1, InternalDecimals)
         IN Round(Sub(I(1), rho), decimals))

MGNProbability(lambda, mu, iteration, decimals) ==
  Catch("M/G/1 N Probability error",
    IF IsZero(mu) THEN Throw(MsgMuZero)
    ELSE IF iteration < 1 THEN Throw(MsgIterLowOne)
    ELSE Val({IF IsErr(rho) THEN rho
              ELSE Round(Mul(UPow(rho, iteration), po), decimals)
              : rho \in {Rho(lambda, mu, 1, InternalDecimals)},
                po \in {SSInitialProbability(lambda, mu, InternalDecimals)}}))

MGQClientEx(lambda, mu, variation, decimals) ==
  LET v == variation
  IN Catch("M/G/1 Queue Clients Expected error",
       IF IsZero(mu) THEN Throw(MsgMuZero)
       ELSE Val({Round(Div(Add(Mul(UPow(lambda, 2), UPow(v, 2)), UPow(rho, 2)),
                           Mul(I(2), Sub(I(1), rho))), decimals)
                 : rho \in {Rho(lambda, mu, 1, InternalDecimals)}}))

MGSClientEx(lambda, mu, variation, decimals) ==
  LET v == variation
  IN Catch("M/G/1 System Clients Expected error",
       IF IsZero(mu) THEN Throw(MsgMuZero)
       ELSE LET rho == Rho(lambda, mu, 1, InternalDecimals)
                Lq == MGQClientEx(lambda, mu, v, InternalDecimals)
            IN Round(Add(rho, Lq), decimals))

MGQTimeEx(lambda, mu, variation, decimals) ==
  LET v == variation
  IN Catch("M/G/1 Queue Time Expected error",
       IF IsZero(mu) THEN Throw(MsgMuZero)
       ELSE LET Lq == MGQClientEx(lambda, mu, v, InternalDecimals)
            IN Round(Div(Lq, lambda), decimals))

MGSTimeEx_NoService(lambda, mu, variation, decimals) ==
  LET v == variation
  IN Catch("M/G/1 System Time Expected error",
       IF IsZero(mu) THEN Throw(MsgMuZero)
       ELSE LET Wq == MGQTimeEx(lambda, mu, v, InternalDecimals)
            IN Round(Wq, decimals))

MGSTimeEx(lambda, mu, variation, decimals) ==
  LET v == variation
  IN Catch("M/G/1 System Time Expected error",
       IF IsZero(mu) THEN Throw(MsgMuZero)
       ELSE LET Wq == MGQTimeEx(lambda, mu, v, InternalDecimals)
            IN Round(Add(Wq, Div(I(1), mu)), decimals))

----------------------------------------------------------------------------
(* Multi server: M/M/s *)

MsgMuLeZero == "The parameter 'mu' cannot be equal to or less than zero (0)."
MsgNLow0 == "The parameter 'n' cannot be lower than 0."
MsgMuOrSize(mu) ==
  IF IsZero(mu) THEN "The parameter 'mu' cannot be equal to or less than 0."
  ELSE "The parameter 'server size' cannot be equal to or less than 0."
CtxMMSQueue == "Expected value of the number of customers in the queue error"

LeZero(v) == IsZero(v) \/ IsNeg(v)

(* serverSize = serverSize ? serverSize : 1 *)
OrOne(serverSize) == IF serverSize = 0 THEN 1 ELSE serverSize

MMSQtyServerBusy(lambda, mu, serverSize, iteration, decimals) ==
  LET n == iteration
      s == serverSize
  IN Catch("M/M/s Quantity of Servers Busy error",
       IF IsZero(mu) THEN Throw(MsgMuZero)
       ELSE IF s <= 0 THEN Throw(MsgServerSize)
       ELSE IF n < 1 THEN Throw(MsgIterLow1)
       ELSE Round(Div(Pow(Div(lambda, mu), n),
                      IF n <= s THEN UFact(n)
                      ELSE Mul(UFact(s), UPow(I(s), n - s))), decimals))

MMSInitialProbability_NoTail(lambda, mu, serverSize, decimals) ==
  LET s == serverSize
      upLim == s - 1
  IN Catch("M/M/s Initial Probability error",
       IF IsZero(mu) THEN Throw(MsgMuZero)
       ELSE IF s <= 0 THEN Throw(MsgServerSize)
       ELSE Val({IF IsErr(sum) THEN sum
                 ELSE Round(Div(I(1),
                        Add(sum, Div(Pow(Div(lambda, mu), s), UFact(s)))), decimals)
                 : sum \in {Summation(0, upLim, ExprPowFact(lambda, mu), InternalDecimals)}}))

MMSInitialProbability(lambda, mu, serverSize, decimals) ==
  LET s == serverSize
      upLim == s - 1
  IN Catch("M/M/s Initial Probability error",
       IF IsZero(mu) THEN Throw(MsgMuZero)
       ELSE IF s <= 0 THEN Throw(MsgServerSize)
       ELSE Val({IF IsErr(sum) THEN sum
                 ELSE IF IsErr(rho) THEN rho
                 ELSE Round(Div(I(1),
                        Add(sum, Mul(Div(Pow(Div(lambda, mu), s), UFact(s)),
                                     Div(I(1), Sub(I(1), rho))))), decimals)
                 : sum \in {Summation(0, upLim, ExprPowFact(lambda, mu), InternalDecimals)},
                   rho \in {Rho(lambda, mu, s, InternalDecimals)}}))

MMSNProbability(lambda, mu, serverSize, iteration, decimals) ==
  LET n == iteration
      s == serverSize
  IN Catch("M/M/s n Probability error",
       IF LeZero(mu) THEN Throw(MsgMuLeZero)
       ELSE IF s <= 0 THEN Throw(MsgServerSize)
       ELSE IF n < 0 THEN Throw(MsgNLow0)
       ELSE Val({IF IsErr(po) THEN po
                 ELSE Round(Mul(IF n <= s
                                  THEN Div(Pow(Div(lambda, mu), s), UFact(n))
                                  ELSE Div(Div(lambda, mu),
                                           Mul(UFact(s), UPow(I(s), n - s))),
                                po), decimals)
                 : po \in {MMSInitialProbability(lambda, mu, s, InternalDecimals)}}))

MMSQClientEx(lambda, mu, serverSize0, decimals) ==
  LET serverSize == OrOne(serverSize0)
      s == serverSize
  IN Catch(CtxMMSQueue,
       IF LeZero(mu) \/ serverSize <= 0 THEN Throw(MsgMuOrSize(mu))
       ELSE Val({IF IsErr(rho) THEN rho
                 ELSE IF IsErr(po) THEN po
                 ELSE Round(Mul(Div(Mul(po, Pow(Div(lambda, mu), s)),
                                    Mul(UFact(s), Pow(Sub(I(1), rho), 2))),
                                rho), decimals)
                 : rho \in {Rho(lambda, mu, serverSize, InternalDecimals)},
                   po \in {MMSInitialProbability(lambda, mu, serverSize, InternalDecimals)}}))

MMSSClientEx(lambda, mu, serverSize0, decimals) ==
  LET serverSize == OrOne(serverSize0)
  IN Catch(CtxMMSQueue,
       IF LeZero(mu) \/ serverSize <= 0 THEN Throw(MsgMuOrSize(mu))
       ELSE LET Lq == MMSQClientEx(lambda, mu, serverSize, InternalDecimals)
            IN Round(Add(Lq, Div(lambda, mu)), decimals))

MMSQTimeEx(lambda, mu, serverSize0, decimals) ==
  LET serverSize == OrOne(serverSize0)
  IN Catch(CtxMMSQueue,
       IF LeZero(mu) \/ serverSize <= 0 THEN Throw(MsgMuOrSize(mu))
       ELSE LET Lq == MMSQClientEx(lambda, mu, serverSize, InternalDecimals)
            IN Round(Div(Lq, lambda), decimals))

MMSSTimeEx(lambda, mu, serverSize0, decimals) ==
  LET serverSize == OrOne(serverSize0)
  IN Catch(CtxMMSQueue,
       IF LeZero(mu) \/ serverSize <= 0 THEN Throw(MsgMuOrSize(mu))
       ELSE LET Wq == MMSQTimeEx(lambda, mu, serverSize, InternalDecimals)
            IN Round(Add(Wq, Div(I(1), mu)), decimals))

----------------------------------------------------------------------------
(* Multi server, finite capacity: M/M/s/k *)

MMSKNLambda_NoCutoff(lambda, iteration, limit, decimals) ==
  Catch("Lambda n for M/M/s/k error", Round(lambda, decimals))

MMSKNLambda(lambda, iteration, limit, decimals) ==
  LET n == iteration
      k == limit
  IN Catch("Lambda n for M/M/s/k error",
       IF n > k THEN I(0) ELSE Round(lambda, decimals))

MMSKQtyServerBusy(lambda, mu, serverSize, iteration, limit, decimals) ==
  LET n == iteration
      s == serverSize
      k == limit
  IN Catch("M/M/s/k Quantity of Servers Busy error",
       IF IsZero(mu) THEN Throw(MsgMuZero)
       ELSE IF s = 0 THEN Throw("The parameter 'serverSize' cannot be equal to zero (0).")
       ELSE IF k = 0 THEN Throw(MsgLimitZero)
       ELSE IF k < s THEN Throw(MsgLimitLowS)
       ELSE IF n < 0 THEN Throw(MsgIterNeg)
       ELSE IF n <= s
         THEN Round(Div(Pow(Div(I(1), mu), n), UFact(n)), decimals)
       ELSE IF n <= k
         THEN Val({Round(Sub(Mul(Div(Pow(Div(l, mu), s), UFact(s)),
                                 Pow(Div(l, Mul(mu, I(s))), n - s)),
                             Div(Pow(Div(l, mu), n),
                                 Mul(UFact(s), UPow(I(s), n - s)))), decimals)
                   : l \in {MMSKNLambda(lambda, n, k, InternalDecimals)}})
       ELSE I(0))

MMSKInitialProbability(lambda, mu, serverSize, limit, decimals) ==
  LET s == serverSize
      k == limit
      lowLimit == s + 1
  IN Catch("M/M/s/k Initial Probability error",
       IF IsZero(mu) THEN Throw(MsgMuZero)
       ELSE IF s <= 0 THEN Throw(MsgServerSize)
       ELSE IF k = 0 THEN Throw(MsgLimitZero)
       ELSE IF k < s + 1 THEN Throw(MsgLimitLowS1)
       ELSE Val({Val({IF IsErr(sum1) THEN sum1
                      ELSE IF IsErr(sum2) THEN sum2
                      ELSE Round(Div(I(1),
                             Add(sum1, Mul(Div(Pow(Div(l, mu), s), UFact(s)), sum2))),
                             decimals)
                      : sum1 \in {Summation(0, s, ExprPowFact(l, mu), InternalDecimals)},
                        sum2 \in {Summation(lowLimit, k, ExprPowShift(l, mu, s),
                                            InternalDecimals)}})
                 : l \in {MMSKNLambda(lambda, 0, k, InternalDecimals)}}))

MMSKNProbability(lambda, mu, serverSize, iteration, limit, decimals) ==
  LET n == iteration
      s == serverSize
      k == limit
  IN Catch("M/M/s/k n Probability error",
       IF IsZero(mu) THEN Throw(MsgMuZero)
       ELSE IF s <= 0 THEN Throw(MsgServerSize)
       ELSE IF k = 0 THEN Throw(MsgLimitZero)
       ELSE IF k < s THEN Throw(MsgLimitLowS)
       ELSE IF n < 0 THEN Throw(MsgIterNeg)
       ELSE Val({Val({IF IsErr(po) THEN po
                      ELSE IF n <= s
                        THEN Round(Mul(Div(Pow(Div(I(1), mu), n), UFact(n)), po), decimals)
                      ELSE IF n <= k
                        THEN Round(Mul(Div(Pow(Div(l, mu), n),
                                           Mul(UFact(s), UPow(I(s), n - s))), po), decimals)
                      ELSE I(0)
                      : po \in {MMSKInitialProbability(l, mu, s, k, InternalDecimals)}})
                 : l \in {MMSKNLambda(lambda, n, k, InternalDecimals)}}))

MMSKQClientEx(lambda, mu, serverSize, limit, decimals) ==
  LET s == serverSize
      k == limit
  IN Catch("M/M/s/k Queue Expected Clients error",
       IF IsZero(mu) THEN Throw(MsgMuZero)
       ELSE IF s <= 0 THEN Throw(MsgServerSize)
       ELSE IF k < s + 1 THEN Throw(MsgLimitLowS1)
       ELSE Val({Val({Val({IF IsErr(po) THEN po
                           ELSE IF IsErr(rho) THEN rho
                           ELSE Round(Mul(Div(Mul(po, Pow(Div(l, mu), s)),
                                              Mul(UFact(s), Pow(Sub(I(1), rho), 2))),
                                          Mul(rho, Sub(Sub(I(1), rks),
                                                       Mul(Mul(I(k - s), rks),
                                                           Sub(I(1), rho))))),
                                      decimals)
                           : rks \in {Pow(rho, k - s)}})
                      : po \in {MMSKInitialProbability(l, mu, s, k, InternalDecimals)},
                        rho \in {Rho(l, mu, s, InternalDecimals)}})
                 : l \in {MMSKNLambda(lambda, 0, k, InternalDecimals)}}))

(* the manual summation of MMSKSClientEx: <<sum1, sum2>> after steps i..upperLimit *)
RECURSIVE MMSKSumLoop(_, _, _, _, _, _, _, _)
MMSKSumLoop(i, upperLimit, l, mu, s, k, sum1, sum2) ==
  IF i > upperLimit \/ IsErr(sum1) THEN <<sum1, sum2>>
  ELSE Val({MMSKSumLoop(i + 1, upperLimit, l, mu, s, k,
                        Add(sum1, Mul(I(i), pn)), Add(sum2, pn))
            : pn \in {MMSKNProbability(l, mu, s, i, k, InternalDecimals)}})

MMSKSClientEx(lambda, mu, serverSize, limit, decimals) ==
  LET s == serverSize
      k == limit
      upperLimit == s - 1
  IN Catch("M/M/s/k System Expected Clients error",
       IF IsZero(mu) THEN Throw(MsgMuZero)
       ELSE IF s <= 0 THEN Throw(MsgServerSize)
       ELSE IF k = 0 THEN Throw(MsgLimitZero)
       ELSE IF k < s + 1 THEN Throw(MsgLimitLowS1)
       ELSE Val({Val({Val({IF IsErr(Lq) THEN Lq
                           ELSE IF IsErr(p0) THEN p0
                           ELSE Round(Add(Add(sums[1], Lq),
                                          Mul(I(s), Sub(I(1), sums[2]))), decimals)
                           : sums \in {MMSKSumLoop(1, upperLimit, l, mu, s, k, I(0), p0)}})
                      : Lq \in {MMSKQClientEx(l, mu, s, k, InternalDecimals)},
                        p0 \in {MMSKInitialProbability(l, mu, s, k, InternalDecimals)}})
                 : l \in {MMSKNLambda(lambda, 0, k, InternalDecimals)}}))

MMSKQTimeEx(lambda, mu, serverSize, limit, decimals) ==
  LET s == serverSize
      k == limit
  IN Catch("M/M/s/k Queue Expected Time error",
       IF IsZero(mu) THEN Throw(MsgMuZero)
       ELSE IF s <= 0 THEN Throw(MsgServerSize)
       ELSE IF k = 0 THEN Throw(MsgLimitZero)
       ELSE IF k < s + 1 THEN Throw(MsgLimitLowS1)
       ELSE Val({Val({IF IsErr(pk) THEN pk
                      ELSE Round(Div(Lq, Mul(l, Sub(I(1), pk))), decimals)
                      : pk \in {MMSKNProbability(l, mu, s, k, k, InternalDecimals)},
                        Lq \in {MMSKQClientEx(l, mu, s, k, InternalDecimals)}})
                 : l \in {MMSKNLambda(lambda, 0, k, InternalDecimals)}}))

MMSKSTimeEx(lambda, mu, serverSize, limit, decimals) ==
  LET s == serverSize
      k == limit
  IN Catch("M/M/s/k System Expected Time error",
       IF IsZero(mu) THEN Throw(MsgMuZero)
       ELSE IF s <= 0 THEN Throw(MsgServerSize)
       ELSE IF k = 0 THEN Throw(MsgLimitZero)
       ELSE IF k < s + 1 THEN Throw(MsgLimitLowS1)
       ELSE Val({Val({IF IsErr(pk) THEN pk
                      ELSE Round(Div(Ls, Mul(l, Sub(I(1), pk))), decimals)
                      : pk \in {MMSKNProbability(l, mu, s, k, k, InternalDecimals)},
                        Ls \in {MMSKSClientEx(l, mu, s, k, InternalDecimals)}})
                 : l \in {MMSKNLambda(lambda, 0, k, InternalDecimals)}}))

MMSKLostLambda(lambda, mu, serverSize, limit, decimals) ==
  LET s == serverSize
      k == limit
  IN Catch("M/M/s/k System Expected Time error",
       IF IsZero(mu) THEN Throw(MsgMuZero)
       ELSE IF s <= 0 THEN Throw(MsgServerSize)
       ELSE IF k = 0 THEN Throw(MsgLimitZero)
       ELSE IF k < s + 1 THEN Throw(MsgLimitLowS1)
       ELSE Val({Round(Mul(l, Sub(I(1),
                   MMSKNProbability(l, mu, s, k, k, InternalDecimals))), decimals)
                 : l \in {MMSKNLambda(lambda, 0, k, InternalDecimals)}}))

----------------------------------------------------------------------------
(* Model dispatcher.  An outcome is what a call hands to its caller: a      *)
(* plain value, a ModelResult envelope {result, message}, or a thrown      *)
(* error (v is the error, env is FALSE).                                    *)

Plain(x) == [env |-> FALSE, v |-> x, message |-> ""]
Envelope(result, message) == [env |-> TRUE, v |-> result, message |-> message]
Thrown(o) == IsErr(o.v)

MsgModel == "The parameter 'model' must be between 1 and 5 (inclusive)."
MsgInvalidModel == "Invalid queuing model selected."
OkMM1 == "Successful calculation for the M/M/1 model."
OkMMS == "Successful calculation for the M/M/s model."
OkMMK == "Successful calculation for the M/M/1/k model."
OkMMSK == "Successful calculation for the M/M/s/k model."
OkMG1 == "Successful calculation for the M/G/1 model."
NoBusyMM1 == "The M/M/1 model does not quantify the occupied servers."
NoBusyMG1 == "The M/G/1 model does not quantify the occupied servers."

(* return { result: f(...), message }: an error thrown by f leaves the      *)
(* switch before the envelope is built                                     *)
Result(r, message) ==
  Val({IF IsErr(x) THEN Plain(x) ELSE Envelope(x, message) : x \in {r}})

(* try { ... } catch (error) { throw Error(`${ctx}: ${error}`) } around a   *)
(* picker body                                                             *)
PickerCatch(ctx, o) ==
  Val({IF Thrown(x) THEN Plain(Wrap(ctx, x.v)) ELSE x : x \in {o}})

QtyServerBusy_ChecksMu(model, lambda, mu, serverSize, iteration, limit, decimals) ==
  PickerCatch("Quantity of Server Busy function picker error",
    IF model <= 0 \/ model > 5 THEN Plain(Throw(MsgModel))
    ELSE IF IsZero(mu) THEN Plain(Throw(MsgMuZero))
    ELSE CASE model = 1 -> Envelope(Null, NoBusyMM1)
           [] model = 2 ->
                Result(MMSQtyServerBusy(lambda, mu, serverSize, iteration, decimals), OkMMS)
           [] model = 3 ->
                Result(MMKQtyServerBusy(lambda, mu, iteration, limit, decimals), OkMMK)
           [] model = 4 ->
                Result(MMSKQtyServerBusy(mu, I(serverSize), iteration, limit, decimals,
                                         DefaultDecimals), OkMMSK)
           [] model = 5 -> Envelope(Null, NoBusyMG1)
           [] OTHER -> Envelope(Null, MsgInvalidModel))

QtyServerBusy(model, lambda, mu, serverSize, iteration, limit, decimals) ==
  LET n == iteration
      s == serverSize
      k == limit
  IN PickerCatch("Quantity of Server Busy function picker error",
       IF model <= 0 \/ model > 5 THEN Plain(Throw(MsgModel))
       ELSE CASE model = 1 -> Envelope(Null, NoBusyMM1)
              [] model = 2 -> Result(MMSQtyServerBusy(lambda, mu, s, n, decimals), OkMMS)
              [] model = 3 -> Result(MMKQtyServerBusy(lambda, mu, n, k, decimals), OkMMK)
              [] model = 4 ->
                   Result(MMSKQtyServerBusy(mu, I(s), n, k, decimals, DefaultDecimals), OkMMSK)
              [] model = 5 -> Envelope(Null, NoBusyMG1)
              [] OTHER -> Envelope(Null, MsgInvalidModel))

InitialProbability(model, lambda, mu, serverSize, limit, decimals) ==
  LET s == serverSize
      k == limit
  IN PickerCatch("Initial Probability function picker error",
       IF model <= 0 \/ model > 5 THEN Plain(Throw(MsgModel))
       ELSE CASE model = 1 -> Result(SSInitialProbability(lambda, mu, decimals), OkMM1)
              [] model = 2 -> Result(MMSInitialProbability(lambda, mu, s, decimals), OkMMS)
              [] model = 3 -> Result(MMKInitialProbability(lambda, mu, k, decimals), OkMMK)
              [] model = 4 -> Result(MMSKInitialProbability(lambda, mu, s, k, decimals), OkMMSK)
              [] model = 5 -> Result(MGInitialProbability(lambda, mu, decimals), OkMG1)
              [] OTHER -> Envelope(Null, MsgInvalidModel))

NProbability(model, lambda, mu, serverSize, iteration, limit, decimals) ==
  LET n == iteration
      s == serverSize
      k == limit
  IN PickerCatch("N Probability Method Picker error",
       IF model <= 0 \/ model > 5 THEN Plain(Throw(MsgModel))
       ELSE CASE model = 1 -> Result(SSNProbability(lambda, mu, n, decimals), OkMM1)
              [] model = 2 -> Result(MMSNProbability(lambda, mu, s, n, decimals), OkMMS)
              [] model = 3 -> Result(MMKNProbability(lambda, mu, n, k, decimals), OkMMK)
              [] model = 4 -> Result(MMSKNProbability(lambda, mu, s, n, k, decimals), OkMMSK)
              [] model = 5 -> Result(MGNProbability(lambda, mu, n, decimals), OkMG1)
              [] OTHER -> Envelope(Null, MsgInvalidModel))

(* model 1 calls the three-parameter M/M/1 functions with (lambda, mu, 1,   *)
(* decimals): the third argument, 1, is what they receive as decimals       *)
QClientEx(model, lambda, mu, serverSize, variation, limit, decimals) ==
  LET v == variation
      s == serverSize
      k == limit
  IN PickerCatch("Expected clients in queue Method Picker error",
       IF model <= 0 \/ model > 5 THEN Plain(Throw(MsgModel))
       ELSE CASE model = 1 -> Result(SSQClientEx(lambda, mu, 1), OkMM1)
              [] model = 2 -> Result(MMSQClientEx(lambda, mu, s, decimals), OkMMS)
              [] model = 3 -> Result(MMKQClientEx(lambda, mu, k, decimals), OkMMK)
              [] model = 4 -> Result(MMSKQClientEx(lambda, mu, s, k, decimals), OkMMSK)
              [] model = 5 -> Result(MGQClientEx(lambda, mu, v, decimals), OkMG1)
              [] OTHER -> Envelope(Null, MsgInvalidModel))

SClientEx(model, lambda, mu, serverSize, variation, limit, decimals) ==
  LET v == variation
      s == serverSize
      k == limit
  IN PickerCatch("Expected clients in system Method Picker error",
       IF model <= 0 \/ model > 5 THEN Plain(Throw(MsgModel))
       ELSE CASE model = 1 -> Result(SSSClientEx(lambda, mu, 1), OkMM1)
              [] model = 2 -> Result(MMSSClientEx(lambda, mu, s, decimals), OkMMS)
              [] model = 3 -> Result(MMKSClientEx(lambda, mu, k, decimals), OkMMK)
              [] model = 4 -> Result(MMSKSClientEx(lambda, mu, s, k, decimals), OkMMSK)
              [] model = 5 -> Result(MGSClientEx(lambda, mu, v, decimals), OkMG1)
              [] OTHER -> Envelope(Null, MsgInvalidModel))

QTimeEx(model, lambda, mu, serverSize, variation, limit, decimals) ==
  LET v == variation
      s == serverSize
      k == limit
  IN PickerCatch("Expected time in queue Method Picker error",
       IF model <= 0 \/ model > 5 THEN Plain(Throw(MsgModel))
       ELSE CASE model = 1 -> Result(SSQTimeEx(lambda, mu, 1), OkMM1)
              [] model = 2 -> Result(MMSQTimeEx(lambda, mu, s, decimals), OkMMS)
              [] model = 3 -> Result(MMKQTimeEx(lambda, mu, k, decimals), OkMMK)
              [] model = 4 -> Result(MMSKQTimeEx(lambda, mu, s, k, decimals), OkMMSK)
              [] model = 5 -> Result(MGQTimeEx(lambda, mu, v, decimals), OkMG1)
              [] OTHER -> Envelope(Null, MsgInvalidModel))

STimeEx(model, lambda, mu, serverSize, variation, limit, decimals) ==
  LET v == variation
      s == serverSize
      k == limit
  IN PickerCatch("Expected time in system Method Picker error",
       IF model <= 0 \/ model > 5 THEN Plain(Throw(MsgModel))
       ELSE CASE model = 1 -> Result(SSSTimeEx(lambda, mu, 1), OkMM1)
              [] model = 2 -> Result(MMSSTimeEx(lambda, mu, s, decimals), OkMMS)
              [] model = 3 -> Result(MMKSTimeEx(lambda, mu, k, decimals), OkMMK)
              [] model = 4 -> Result(MMSKSTimeEx(lambda, mu, s, k, decimals), OkMMSK)
              [] model = 5 -> Result(MGSTimeEx(lambda, mu, v, decimals), OkMG1)
              [] OTHER -> Envelope(Null, MsgInvalidModel))

ModelName_LooseGuard(model) ==
  PickerCatch("Model Name Picker error",
    IF model < 0 \/ model > 5 THEN Plain(Throw(MsgModel))
    ELSE CASE model = 1 -> Envelope(I(1), "M/M/1 model")
           [] model = 2 -> Envelope(I(2), "M/M/s model")
           [] model = 3 -> Envelope(I(3), "M/M/1/k model")
           [] model = 4 -> Envelope(I(4), "M/M/s/k model")
           [] model = 5 -> Envelope(I(5), "M/G/1 model")
           [] OTHER -> Envelope(Null, MsgInvalidModel))

ModelName(model) ==
  PickerCatch("Model Name Picker error",
    IF model <= 0 \/ model > 5 THEN Plain(Throw(MsgModel))
    ELSE CASE model = 1 -> Envelope(I(1), "M/M/1 model")
           [] model = 2 -> Envelope(I(2), "M/M/s model")
           [] model = 3 -> Envelope(I(3), "M/M/1/k model")
           [] model = 4 -> Envelope(I(4), "M/M/s/k model")
           [] model = 5 -> Envelope(I(5), "M/G/1 model")
           [] OTHER -> Envelope(Null, MsgInvalidModel))

----------------------------------------------------------------------------
(* Cost layer *)

(* a ModelResult object used as an operand of `*` converts to NaN *)
ToNumber(o) == IF o.env THEN NaN ELSE o.v

WaitingCost(waitingCost, model, lambda, mu, serverSize, variance, limit, decimals) ==
  Catch("Waiting Cost error",
    Val({IF Thrown(st) THEN st.v
         ELSE LET L == Mul(lambda, ToNumber(st))
              IN Round(Mul(waitingCost, L), decimals)
         : st \in {STimeEx(model, lambda, mu, serverSize, variance, limit,
                           InternalDecimals)}}))

----------------------------------------------------------------------------
(* The calls.  `call` is the public function that was invoked ("idle"      *)
(* before the call), `args` its arguments (parameters the function does    *)
(* not have keep the values of NoArgs), `ret` the outcome.                 *)

Models == 0..6
Rates == -1..MaxRate
Servers == -1..MaxServers
Iterations == -1..MaxIter
Limits == -1..MaxLimit
Variations == 0..1
Decimals == {0, DefaultDecimals, 16}
Costs == 1..2
SumLimits == -MaxSum..MaxSum
Expressions == {ExprN, ExprNSquare, ExprHalf, ExprX}

NoArgs ==
  [model |-> 1, lambda |-> 0, mu |-> 1, serverSize |-> 1, iteration |-> 1,
   limit |-> 1, variation |-> 0, decimals |-> DefaultDecimals, waitingCost |-> 0,
   lowerLimit |-> 0, upperLimit |-> 0, expression |-> ExprN,
   val |-> I(1), value |-> I(0), total |-> 100, type |-> "true",
   sourceValue |-> 1, sourceUnit |-> 1, targetUnit |-> 1]

Init ==
  /\ call = "idle"
  /\ args = NoArgs
  /\ ret = Plain(Null)

Invoke(name, a, o) ==
  /\ call' = name
  /\ args' = a
  /\ ret' = o

CallQtyServerBusy ==
  /\ call = "idle"
  /\ \E m \in Models, l \in Rates, u \in Rates, s \in Servers, n \in Iterations,
     k \in Limits, dec \in Decimals :
    Invoke("QtyServerBusy",
      [NoArgs EXCEPT !.model = m, !.lambda = l, !.mu = u, !.serverSize = s,
                     !.iteration = n, !.limit = k, !.decimals = dec],
      QtyServerBusy(m, I(l), I(u), s, n, k, dec))

CallInitialProbability ==
  /\ call = "idle"
  /\ \E m \in Models, l \in Rates, u \in Rates, s \in Servers, k \in Limits,
     dec \in Decimals :
    Invoke("InitialProbability",
      [NoArgs EXCEPT !.model = m, !.lambda = l, !.mu = u, !.serverSize = s,
                     !.limit = k, !.decimals = dec],
      InitialProbability(m, I(l), I(u), s, k, dec))

CallNProbability ==
  /\ call = "idle"
  /\ \E m \in Models, l \in Rates, u \in Rates, s \in Servers, n \in Iterations,
     k \in Limits, dec \in Decimals :
    Invoke("NProbability",
      [NoArgs EXCEPT !.model = m, !.lambda = l, !.mu = u, !.serverSize = s,
                     !.iteration = n, !.limit = k, !.decimals = dec],
      NProbability(m, I(l), I(u), s, n, k, dec))

CallQClientEx ==
  /\ call = "idle"
  /\ \E m \in Models, l \in Rates, u \in Rates, s \in Servers, v \in Variations,
     k \in Limits, dec \in Decimals :
    Invoke("QClientEx",
      [NoArgs EXCEPT !.model = m, !.lambda = l, !.mu = u, !.serverSize = s,
                     !.variation = v, !.limit = k, !.decimals = dec],
      QClientEx(m, I(l), I(u), s, I(v), k, dec))

CallSClientEx ==
  /\ call = "idle"
  /\ \E m \in Models, l \in Rates, u \in Rates, s \in Servers, v \in Variations,
     k \in Limits, dec \in Decimals :
    Invoke("SClientEx",
      [NoArgs EXCEPT !.model = m, !.lambda = l, !.mu = u, !.serverSize = s,
                     !.variation = v, !.limit = k, !.decimals = dec],
      SClientEx(m, I(l), I(u), s, I(v), k, dec))

CallQTimeEx ==
  /\ call = "idle"
  /\ \E m \in Models, l \in Rates, u \in Rates, s \in Servers, v \in Variations,
     k \in Limits, dec \in Decimals :
    Invoke("QTimeEx",
      [NoArgs EXCEPT !.model = m, !.lambda = l, !.mu = u, !.serverSize = s,
                     !.variation = v, !.limit = k, !.decimals = dec],
      QTimeEx(m, I(l), I(u), s, I(v), k, dec))

CallSTimeEx ==
  /\ call = "idle"
  /\ \E m \in Models, l \in Rates, u \in Rates, s \in Servers, v \in Variations,
     k \in Limits, dec \in Decimals :
    Invoke("STimeEx",
      [NoArgs EXCEPT !.model = m, !.lambda = l, !.mu = u, !.serverSize = s,
                     !.variation = v, !.limit = k, !.decimals = dec],
      STimeEx(m, I(l), I(u), s, I(v), k, dec))

CallModelName ==
  /\ call = "idle"
  /\ \E m \in Models :
    Invoke("ModelName", [NoArgs EXCEPT !.model = m], ModelName(m))

CallWaitingCost ==
  /\ call = "idle"
  /\ \E w \in Costs, m \in Models, l \in Rates, u \in Rates, s \in Servers,
     v \in Variations, k \in Limits, dec \in Decimals :
    Invoke("WaitingCost",
      [NoArgs EXCEPT !.waitingCost = w, !.model = m, !.lambda = l, !.mu = u,
                     !.serverSize = s, !.variation = v, !.limit = k,
                     !.decimals = dec],
      Plain(WaitingCost(I(w), m, I(l), I(u), s, I(v), k, dec)))

NextDispatch ==
  \/ CallQtyServerBusy
  \/ CallInitialProbability
  \/ CallNProbability
  \/ CallQClientEx
  \/ CallSClientEx
  \/ CallQTimeEx
  \/ CallSTimeEx
  \/ CallModelName
  \/ CallWaitingCost

SpecDispatch == Init /\ [][NextDispatch]_vars

----------------------------------------------------------------------------
(* Calls of the M/M/1 functions *)

CallSSInitialProbability ==
  /\ call = "idle"
  /\ \E l \in Rates, u \in Rates, dec \in Decimals :
       Invoke("SSInitialProbability",
         [NoArgs EXCEPT !.lambda = l, !.mu = u, !.decimals = dec],
         Plain(SSInitialProbability(I(l), I(u), dec)))

CallSSNProbability ==
  /\ call = "idle"
  /\ \E l \in Rates, u \in Rates, n \in Iterations, dec \in Decimals :
       Invoke("SSNProbability",
         [NoArgs EXCEPT !.lambda = l, !.mu = u, !.iteration = n, !.decimals = dec],
         Plain(SSNProbability(I(l), I(u), n, dec)))

CallSSSClientEx ==
  /\ call = "idle"
  /\ \E l \in Rates, u \in Rates, dec \in Decimals :
       Invoke("SSSClientEx",
         [NoArgs EXCEPT !.lambda = l, !.mu = u, !.decimals = dec],
         Plain(SSSClientEx(I(l), I(u), dec)))

CallSSQClientEx ==
  /\ call = "idle"
  /\ \E l \in Rates, u \in Rates, dec \in Decimals :
       Invoke("SSQClientEx",
         [NoArgs EXCEPT !.lambda = l, !.mu = u, !.decimals = dec],
         Plain(SSQClientEx(I(l), I(u), dec)))

CallSSSTimeEx ==
  /\ call = "idle"
  /\ \E l \in Rates, u \in Rates, dec \in Decimals :
       Invoke("SSSTimeEx",
         [NoArgs EXCEPT !.lambda = l, !.mu = u, !.decimals = dec],
         Plain(SSSTimeEx(I(l), I(u), dec)))

CallSSQTimeEx ==
  /\ call = "idle"
  /\ \E l \in Rates, u \in Rates, dec \in Decimals :
       Invoke("SSQTimeEx",
         [NoArgs EXCEPT !.lambda = l, !.mu = u, !.decimals = dec],
         Plain(SSQTimeEx(I(l), I(u), dec)))

NextSS ==
  \/ CallSSInitialProbability
  \/ CallSSNProbability
  \/ CallSSSClientEx
  \/ CallSSQClientEx
  \/ CallSSSTimeEx
  \/ CallSSQTimeEx

SpecSS == Init /\ [][NextSS]_vars

----------------------------------------------------------------------------
(* Calls of the M/M/1/k functions *)

CallMMKQtyServerBusy ==
  /\ call = "idle"
  /\ \E l \in Rates, u \in Rates, n \in Iterations, k \in Limits, dec \in Decimals :
       Invoke("MMKQtyServerBusy",
         [NoArgs EXCEPT !.lambda = l, !.mu = u, !.iteration = n, !.limit = k,
                        !.decimals = dec],
         Plain(MMKQtyServerBusy(I(l), I(u), n, k, dec)))

CallMMKInitialProbability ==
  /\ call = "idle"
  /\ \E l \in Rates, u \in Rates, k \in Limits, dec \in Decimals :
       Invoke("MMKInitialProbability",
         [NoArgs EXCEPT !.lambda = l, !.mu = u, !.limit = k, !.decimals = dec],
         Plain(MMKInitialProbability(I(l), I(u), k, dec)))

CallMMKNProbability ==
  /\ call = "idle"
  /\ \E l \in Rates, u \in Rates, n \in Iterations, k \in Limits, dec \in Decimals :
       Invoke("MMKNProbability",
         [NoArgs EXCEPT !.lambda = l, !.mu = u, !.iteration = n, !.limit = k,
                        !.decimals = dec],
         Plain(MMKNProbability(I(l), I(u), n, k, dec)))

CallMMKSClientEx ==
  /\ call = "idle"
  /\ \E l \in Rates, u \in Rates, k \in Limits, dec \in Decimals :
       Invoke("MMKSClientEx",
         [NoArgs EXCEPT !.lambda = l, !.mu = u, !.limit = k, !.decimals = dec],
         Plain(MMKSClientEx(I(l), I(u), k, dec)))

CallMMKQClientEx ==
  /\ call = "idle"
  /\ \E l \in Rates, u \in Rates, k \in Limits, dec \in Decimals :
       Invoke("MMKQClientEx",
         [NoArgs EXCEPT !.lambda = l, !.mu = u, !.limit = k, !.decimals = dec],
         Plain(MMKQClientEx(I(l), I(u), k, dec)))

CallMMKQTimeEx ==
  /\ call = "idle"
  /\ \E l \in Rates, u \in Rates, k \in Limits, dec \in Decimals :
       Invoke("MMKQTimeEx",
         [NoArgs EXCEPT !.lambda = l, !.mu = u, !.limit = k, !.decimals = dec],
         Plain(MMKQTimeEx(I(l), I(u), k, dec)))

CallMMKSTimeEx ==
  /\ call = "idle"
  /\ \E l \in Rates, u \in Rates, k \in Limits, dec \in Decimals :
       Invoke("MMKSTimeEx",
         [NoArgs EXCEPT !.lambda = l, !.mu = u, !.limit = k, !.decimals = dec],
         Plain(MMKSTimeEx(I(l), I(u), k, dec)))

NextMMK ==
  \/ CallMMKQtyServerBusy
  \/ CallMMKInitialProbability
  \/ CallMMKNProbability
  \/ CallMMKSClientEx
  \/ CallMMKQClientEx
  \/ CallMMKQTimeEx
  \/ CallMMKSTimeEx

SpecMMK == Init /\ [][NextMMK]_vars

----------------------------------------------------------------------------
(* Calls of the basic utilities *)

CallSummation ==
  /\ call = "idle"
  /\ \E a \in SumLimits, b \in SumLimits, e \in Expressions, dec \in Decimals :
       Invoke("Summation",
         [NoArgs EXCEPT !.lowerLimit = a, !.upperLimit = b, !.expression = e,
                        !.decimals = dec],
         Plain(Summation(a, b, e, dec)))

(* <<lambda, mu, serverSize>> of the calls the tests make *)
RhoExamples == {<<10, 5, 3>>, <<20, 2, 1>>, <<0, 7, 4>>}

CallRho ==
  /\ call = "idle"
  /\ \E a \in (Rates \X Rates \X Servers) \cup RhoExamples, dec \in Decimals :
       Invoke("Rho",
         [NoArgs EXCEPT !.lambda = a[1], !.mu = a[2], !.serverSize = a[3],
                        !.decimals = dec],
         Plain(Rho(I(a[1]), I(a[2]), a[3], dec)))

(* The time table's Second, Minute and Hour, in seconds *)
TimeUnits == {1, 60, 3600}
SourceValues == (-1..MaxRate) \cup {5, 30}

CallConvert ==
  /\ call = "idle"
  /\ \E v \in SourceValues, su \in TimeUnits \cup {-1, 0},
        tu \in TimeUnits \cup {-1, 0}, dec \in Decimals :
       Invoke("Convert",
         [NoArgs EXCEPT !.sourceValue = v, !.sourceUnit = su, !.targetUnit = tu,
                        !.decimals = dec],
         Plain(Convert(I(v), I(su), I(tu), dec)))

PercentValues == {I(v) : v \in -1..MaxRate} \cup {Num(1, 4), Num(3, 4), I(25), I(50)}
Totals == {-1, 0, 1, 100, 200}

CallPercent ==
  /\ call = "idle"
  /\ \E v \in PercentValues, tot \in Totals, ty \in PercentTypes, dec \in Decimals :
       Invoke("Percent",
         [NoArgs EXCEPT !.value = v, !.total = tot, !.type = ty, !.decimals = dec],
         Plain(Percent(v, I(tot), ty, dec)))

InverseValues ==
  {I(v) : v \in -MaxRate..MaxRate} \cup
  {I(10), I(25), Num(1, 25), Num(1, 2), Num(-1, 8), I(19999), I(30000), I(-30000)}

CallInverse ==
  /\ call = "idle"
  /\ \E v \in InverseValues, dec \in Decimals \cup {1, -5} :
       Invoke("Inverse",
         [NoArgs EXCEPT !.val = v, !.decimals = dec],
         Plain(Inverse(v, dec)))

NextBasic ==
  \/ CallSummation
  \/ CallRho
  \/ CallConvert
  \/ CallPercent
  \/ CallInverse

SpecBasic == Init /\ [][NextBasic]_vars

----------------------------------------------------------------------------
(* Calls of the M/M/s/k functions that cut off beyond the limit.  The      *)
(* iteration runs one past the largest limit.                              *)

MMSKIterations == -1..(MaxLimit + 1)
MMSKRates == {I(v) : v \in Rates} \cup {Num(1, 2), Num(12345, 100000)}

(* args.lambda holds the rate itself, which need not be whole *)
CallMMSKNLambda ==
  /\ call = "idle"
  /\ \E l \in MMSKRates, n \in MMSKIterations, k \in Limits, dec \in Decimals :
       Invoke("MMSKNLambda",
         [NoArgs EXCEPT !.lambda = l, !.iteration = n, !.limit = k, !.decimals = dec],
         Plain(MMSKNLambda(l, n, k, dec)))

CallMMSKQtyServerBusy ==
  /\ call = "idle"
  /\ \E l \in Rates, u \in Rates, s \in Servers, n \in MMSKIterations,
        k \in Limits, dec \in Decimals :
       Invoke("MMSKQtyServerBusy",
         [NoArgs EXCEPT !.lambda = l, !.mu = u, !.serverSize = s, !.iteration = n,
                        !.limit = k, !.decimals = dec],
         Plain(MMSKQtyServerBusy(I(l), I(u), s, n, k, dec)))

CallMMSKNProbability ==
  /\ call = "idle"
  /\ \E l \in Rates, u \in Rates, s \in Servers, n \in MMSKIterations,
        k \in Limits, dec \in Decimals :
       Invoke("MMSKNProbability",
         [NoArgs EXCEPT !.lambda = l, !.mu = u, !.serverSize = s, !.iteration = n,
                        !.limit = k, !.decimals = dec],
         Plain(MMSKNProbability(I(l), I(u), s, n, k, dec)))

NextMMSK ==
  \/ CallMMSKNLambda
  \/ CallMMSKQtyServerBusy
  \/ CallMMSKNProbability

SpecMMSK == Init /\ [][NextMMSK]_vars

----------------------------------------------------------------------------
(* Calls of the M/M/s functions *)

CallMMSQtyServerBusy ==
  /\ call = "idle"
  /\ \E l \in Rates, u \in Rates, s \in Servers, n \in Iterations, dec \in Decimals :
       Invoke("MMSQtyServerBusy",
         [NoArgs EXCEPT !.lambda = l, !.mu = u, !.serverSize = s, !.iteration = n,
                        !.decimals = dec],
         Plain(MMSQtyServerBusy(I(l), I(u), s, n, dec)))

CallMMSInitialProbability ==
  /\ call = "idle"
  /\ \E l \in Rates, u \in Rates, s \in Servers, dec \in Decimals :
       Invoke("MMSInitialProbability",
         [NoArgs EXCEPT !.lambda = l, !.mu = u, !.serverSize = s, !.decimals = dec],
         Plain(MMSInitialProbability(I(l), I(u), s, dec)))

CallMMSNProbability ==
  /\ call = "idle"
  /\ \E l \in Rates, u \in Rates, s \in Servers, n \in Iterations, dec \in Decimals :
       Invoke("MMSNProbability",
         [NoArgs EXCEPT !.lambda = l, !.mu = u, !.serverSize = s, !.iteration = n,
                        !.decimals = dec],
         Plain(MMSNProbability(I(l), I(u), s, n, dec)))

CallMMSQClientEx ==
  /\ call = "idle"
  /\ \E l \in Rates, u \in Rates, s \in Servers, dec \in Decimals :
       Invoke("MMSQClientEx",
         [NoArgs EXCEPT !.lambda = l, !.mu = u, !.serverSize = s, !.decimals = dec],
         Plain(MMSQClientEx(I(l), I(u), s, dec)))

CallMMSSClientEx ==
  /\ call = "idle"
  /\ \E l \in Rates, u \in Rates, s \in Servers, dec \in Decimals :
       Invoke("MMSSClientEx",
         [NoArgs EXCEPT !.lambda = l, !.mu = u, !.serverSize = s, !.decimals = dec],
         Plain(MMSSClientEx(I(l), I(u), s, dec)))

CallMMSQTimeEx ==
  /\ call = "idle"
  /\ \E l \in Rates, u \in Rates, s \in Servers, dec \in Decimals :
       Invoke("MMSQTimeEx",
         [NoArgs EXCEPT !.lambda = l, !.mu = u, !.serverSize = s, !.decimals = dec],
         Plain(MMSQTimeEx(I(l), I(u), s, dec)))

CallMMSSTimeEx ==
  /\ call = "idle"
  /\ \E l \in Rates, u \in Rates, s \in Servers, dec \in Decimals :
       Invoke("MMSSTimeEx",
         [NoArgs EXCEPT !.lambda = l, !.mu = u, !.serverSize = s, !.decimals = dec],
         Plain(MMSSTimeEx(I(l), I(u), s, dec)))

NextMMS ==
  \/ CallMMSQtyServerBusy
  \/ CallMMSInitialProbability
  \/ CallMMSNProbability
  \/ CallMMSQClientEx
  \/ CallMMSSClientEx
  \/ CallMMSQTimeEx
  \/ CallMMSSTimeEx

SpecMMS == Init /\ [][NextMMS]_vars

----------------------------------------------------------------------------
(* Calls of the multi-server functions that have a single-server counterpart:
   the M/M/s expectations and the M/M/s/k initial probability and expected
   populations. *)

OneServerLimits == Limits \cup {MaxLimit + 1, MaxLimit + 2}

CallMMSKInitialProbability ==
  /\ call = "idle"
  /\ \E l \in Rates, u \in Rates, s \in Servers, k \in OneServerLimits, dec \in Decimals :
       Invoke("MMSKInitialProbability",
         [NoArgs EXCEPT !.lambda = l, !.mu = u, !.serverSize = s, !.limit = k,
                        !.decimals = dec],
         Plain(MMSKInitialProbability(I(l), I(u), s, k, dec)))

CallMMSKQClientEx ==
  /\ call = "idle"
  /\ \E l \in Rates, u \in Rates, s \in Servers, k \in OneServerLimits, dec \in Decimals :
       Invoke("MMSKQClientEx",
         [NoArgs EXCEPT !.lambda = l, !.mu = u, !.serverSize = s, !.limit = k,
                        !.decimals = dec],
         Plain(MMSKQClientEx(I(l), I(u), s, k, dec)))

CallMMSKSClientEx ==
  /\ call = "idle"
  /\ \E l \in Rates, u \in Rates, s \in Servers, k \in OneServerLimits, dec \in Decimals :
       Invoke("MMSKSClientEx",
         [NoArgs EXCEPT !.lambda = l, !.mu = u, !.serverSize = s, !.limit = k,
                        !.decimals = dec],
         Plain(MMSKSClientEx(I(l), I(u), s, k, dec)))

NextOneServer ==
  \/ CallMMSInitialProbability
  \/ CallMMSQClientEx
  \/ CallMMSSClientEx
  \/ CallMMSQTimeEx
  \/ CallMMSSTimeEx
  \/ CallMMSKInitialProbability
  \/ CallMMSKQClientEx
  \/ CallMMSKSClientEx

SpecOneServer == Init /\ [][NextOneServer]_vars

----------------------------------------------------------------------------
(* Calls of the expected times of M/M/1, M/M/s, M/M/1/k and M/G/1, at the
   default precision and at the precision the functions use internally, where
   rounding leaves an exact value unchanged. *)

LittleDecimals == {DefaultDecimals, InternalDecimals}

LittleSSSTimeEx ==
  /\ call = "idle"
  /\ \E l \in Rates, u \in Rates, dec \in LittleDecimals :
       Invoke("SSSTimeEx",
         [NoArgs EXCEPT !.lambda = l, !.mu = u, !.decimals = dec],
         Plain(SSSTimeEx(I(l), I(u), dec)))

LittleSSQTimeEx ==
  /\ call = "idle"
  /\ \E l \in Rates, u \in Rates, dec \in LittleDecimals :
       Invoke("SSQTimeEx",
         [NoArgs EXCEPT !.lambda = l, !.mu = u, !.decimals = dec],
         Plain(SSQTimeEx(I(l), I(u), dec)))

LittleMMSSTimeEx ==
  /\ call = "idle"
  /\ \E l \in Rates, u \in Rates, s \in Servers, dec \in LittleDecimals :
       Invoke("MMSSTimeEx",
         [NoArgs EXCEPT !.lambda = l, !.mu = u, !.serverSize = s, !.decimals = dec],
         Plain(MMSSTimeEx(I(l), I(u), s, dec)))

LittleMMSQTimeEx ==
  /\ call = "idle"
  /\ \E l \in Rates, u \in Rates, s \in Servers, dec \in LittleDecimals :
       Invoke("MMSQTimeEx",
         [NoArgs EXCEPT !.lambda = l, !.mu = u, !.serverSize = s, !.decimals = dec],
         Plain(MMSQTimeEx(I(l), I(u), s, dec)))

LittleMMKSTimeEx ==
  /\ call = "idle"
  /\ \E l \in Rates, u \in Rates, k \in Limits, dec \in LittleDecimals :
       Invoke("MMKSTimeEx",
         [NoArgs EXCEPT !.lambda = l, !.mu = u, !.limit = k, !.decimals = dec],
         Plain(MMKSTimeEx(I(l), I(u), k, dec)))

LittleMMKQTimeEx ==
  /\ call = "idle"
  /\ \E l \in Rates, u \in Rates, k \in Limits, dec \in LittleDecimals :
       Invoke("MMKQTimeEx",
         [NoArgs EXCEPT !.lambda = l, !.mu = u, !.limit = k, !.decimals = dec],
         Plain(MMKQTimeEx(I(l), I(u), k, dec)))

LittleMGSTimeEx ==
  /\ call = "idle"
  /\ \E l \in Rates, u \in Rates, v \in Variations, dec \in LittleDecimals :
       Invoke("MGSTimeEx",
         [NoArgs EXCEPT !.lambda = l, !.mu = u, !.variation = v, !.decimals = dec],
         Plain(MGSTimeEx(I(l), I(u), I(v), dec)))

LittleMGQTimeEx ==
  /\ call = "idle"
  /\ \E l \in Rates, u \in Rates, v \in Variations, dec \in LittleDecimals :
       Invoke("MGQTimeEx",
         [NoArgs EXCEPT !.lambda = l, !.mu = u, !.variation = v, !.decimals = dec],
         Plain(MGQTimeEx(I(l), I(u), I(v), dec)))

NextLittle ==
  \/ LittleSSSTimeEx
  \/ LittleSSQTimeEx
  \/ LittleMMSSTimeEx
  \/ LittleMMSQTimeEx
  \/ LittleMMKSTimeEx
  \/ LittleMMKQTimeEx
  \/ LittleMGSTimeEx
  \/ LittleMGQTimeEx

SpecLittle == Init /\ [][NextLittle]_vars

----------------------------------------------------------------------------
(* Calls of the single-server state probabilities, direct and through the  *)
(* dispatcher                                                              *)

CallMGNProbability ==
  /\ call = "idle"
  /\ \E l \in Rates, u \in Rates, n \in Iterations, dec \in Decimals :
       Invoke("MGNProbability",
         [NoArgs EXCEPT !.lambda = l, !.mu = u, !.iteration = n, !.decimals = dec],
         Plain(MGNProbability(I(l), I(u), n, dec)))

NextNProbability ==
  \/ CallSSNProbability
  \/ CallMGNProbability
  \/ CallNProbability

SpecNProbability == Init /\ [][NextNProbability]_vars

----------------------------------------------------------------------------
(* Properties *)

ValidDecimals(dec) == dec \in 0..MaxDecimals

DispatcherOps ==
  {"QtyServerBusy", "InitialProbability", "NProbability", "QClientEx",
   "SClientEx", "QTimeEx", "STimeEx", "ModelName"}

(* The per-model function that answers operation `op` for the model of the *)
(* arguments `a`, called with the parameters of the same name               *)
PerModel(op, a, dec) ==
  LET l == I(a.lambda)
      u == I(a.mu)
      s == a.serverSize
      n == a.iteration
      k == a.limit
      v == I(a.variation)
      m == a.model
  IN CASE op = "QtyServerBusy" ->
            (CASE m = 2 -> MMSQtyServerBusy(l, u, s, n, dec)
               [] m = 3 -> MMKQtyServerBusy(l, u, n, k, dec)
               [] m = 4 -> MMSKQtyServerBusy(l, u, s, n, k, dec)
               [] OTHER -> Null)
       [] op = "InitialProbability" ->
            (CASE m = 1 -> SSInitialProbability(l, u, dec)
               [] m = 2 -> MMSInitialProbability(l, u, s, dec)
               [] m = 3 -> MMKInitialProbability(l, u, k, dec)
               [] m = 4 -> MMSKInitialProbability(l, u, s, k, dec)
               [] OTHER -> MGInitialProbability(l, u, dec))
       [] op = "NProbability" ->
            (CASE m = 1 -> SSNProbability(l, u, n, dec)
               [] m = 2 -> MMSNProbability(l, u, s, n, dec)
               [] m = 3 -> MMKNProbability(l, u, n, k, dec)
               [] m = 4 -> MMSKNProbability(l, u, s, n, k, dec)
               [] OTHER -> MGNProbability(l, u, n, dec))
       [] op = "QClientEx" ->
            (CASE m = 1 -> SSQClientEx(l, u, dec)
               [] m = 2 -> MMSQClientEx(l, u, s, dec)
               [] m = 3 -> MMKQClientEx(l, u, k, dec)
               [] m = 4 -> MMSKQClientEx(l, u, s, k, dec)
               [] OTHER -> MGQClientEx(l, u, v, dec))
       [] op = "SClientEx" ->
            (CASE m = 1 -> SSSClientEx(l, u, dec)
               [] m = 2 -> MMSSClientEx(l, u, s, dec)
               [] m = 3 -> MMKSClientEx(l, u, k, dec)
               [] m = 4 -> MMSKSClientEx(l, u, s, k, dec)
               [] OTHER -> MGSClientEx(l, u, v, dec))
       [] op = "QTimeEx" ->
            (CASE m = 1 -> SSQTimeEx(l, u, dec)
               [] m = 2 -> MMSQTimeEx(l, u, s, dec)
               [] m = 3 -> MMKQTimeEx(l, u, k, dec)
               [] m = 4 -> MMSKQTimeEx(l, u, s, k, dec)
               [] OTHER -> MGQTimeEx(l, u, v, dec))
       [] op = "STimeEx" ->
            (CASE m = 1 -> SSSTimeEx(l, u, dec)
               [] m = 2 -> MMSSTimeEx(l, u, s, dec)
               [] m = 3 -> MMKSTimeEx(l, u, k, dec)
               [] m = 4 -> MMSKSTimeEx(l, u, s, k, dec)
               [] OTHER -> MGSTimeEx(l, u, v, dec))
       [] OTHER -> I(m)

(* C1: for model 2, 3 or 4, QtyServerBusy returns an envelope whose result *)
(* is what the model's own busy-server function returns for the same       *)
(* named parameters, and it fails exactly when that function fails.        *)
C1_QtyServerBusyDelegates ==
  (call = "QtyServerBusy" /\ args.model \in {2, 3, 4}) =>
    LET f == PerModel("QtyServerBusy", args, args.decimals)
    IN IF IsErr(f) THEN Thrown(ret)
       ELSE ret.env /\ ret.v = f

C3_FailurePropagates ==
  /\ (call \in DispatcherOps /\ ret.env /\ IsNull(ret.v)) =>
       (call = "QtyServerBusy" /\ args.model \in {1, 5})
  /\ (/\ call \in DispatcherOps
      /\ args.model \in 1..5
      /\ ~(call = "QtyServerBusy" /\ args.model \in {1, 5})
      /\ ValidDecimals(args.decimals)
      /\ IsErr(PerModel(call, args, args.decimals))) =>
       (Thrown(ret) /\ ~ret.env)
  /\ (/\ call = "WaitingCost"
      /\ args.model \in 1..5
      /\ IsErr(PerModel("STimeEx", args, InternalDecimals))) =>
       (Thrown(ret) /\ ~ret.env)

(* C4: QtyServerBusy with model 1 or model 5 returns result = null with    *)
(* the message that the M/M/1 (M/G/1) model does not quantify the occupied *)
(* servers, for every lambda, mu, serverSize, iteration, limit, decimals.  *)
C4_BusyNotApplicable ==
  (call = "QtyServerBusy" /\ args.model \in {1, 5}) =>
    /\ ret.env
    /\ IsNull(ret.v)
    /\ ret.message =
         (IF args.model = 1
            THEN "The M/M/1 model does not quantify the occupied servers."
            ELSE "The M/G/1 model does not quantify the occupied servers.")

C4_Witness ==
  /\ call = "QtyServerBusy"
  /\ args.model = 5
  /\ args.mu = 0
  /\ args.serverSize = 0
  /\ ~ValidDecimals(args.decimals)
  /\ ret.env
  /\ IsNull(ret.v)

(* C5: for every model in 1..5 and parameters for which STimeEx succeeds   *)
(* with numeric system time Ws, WaitingCost returns the number             *)
(* waitingCost * (lambda * Ws) rounded to `decimals`.                      *)
C5_WaitingCostValue ==
  (call = "WaitingCost" /\ args.model \in 1..5 /\ ValidDecimals(args.decimals)) =>
    LET Ws == PerModel("STimeEx", args, InternalDecimals)
    IN IsNum(Ws) =>
         ret.v = Round(Mul(I(args.waitingCost), Mul(I(args.lambda), Ws)), args.decimals)

MMKOps ==
  {"MMKQtyServerBusy", "MMKInitialProbability", "MMKNProbability",
   "MMKSClientEx", "MMKQClientEx", "MMKQTimeEx", "MMKSTimeEx"}

(* Half a unit in the last of `dec` decimal places *)
HalfUlp(dec) == Num(1, 2 * IPow(10, dec))

(* |x - y| <= tol *)
Within(x, y, tol) == IsNum(x) /\ IsNum(y) /\ Le(Abs(Sub(x, y)), tol)

(* C6: MMKQtyServerBusy(lambda, mu, n, k) with mu # 0 and k >= 1 returns   *)
(* exactly 0 for every n > k, and (lambda/mu)^n rounded to `decimals` for  *)
(* every 0 <= n <= k.                                                      *)
C6_MMKBusyCutoff ==
  (call = "MMKQtyServerBusy" /\ args.mu # 0 /\ args.limit >= 1) =>
    /\ args.iteration > args.limit => ret.v = I(0)
    /\ (args.iteration \in 0..args.limit /\ ValidDecimals(args.decimals)) =>
         ret.v = RoundNum(Num(IPow(args.lambda, args.iteration),
                              IPow(args.mu, args.iteration)), args.decimals)

C6_Witness ==
  /\ call = "MMKQtyServerBusy"
  /\ args.limit = 2
  /\ args.iteration = 2
  /\ args.lambda = 1
  /\ args.mu = 2
  /\ args.decimals = DefaultDecimals
  /\ ret.v = Num(1, 4)

(* C7: every M/M/1/k function fails when limit < 1 (limit = 0 and every    *)
(* negative limit) and fails when mu = 0.                                  *)
C7_MMKRejectsLimitAndMu ==
  (call \in MMKOps /\ (args.limit < 1 \/ args.mu = 0)) => Thrown(ret)

(* Sum of rho^n for n = 0..k *)
RECURSIVE GeomSum(_, _)
GeomSum(rho, k) == IF k < 0 THEN I(0) ELSE Add(Pow(rho, k), GeomSum(rho, k - 1))

(* Sum of MMKNProbability(lambda, mu, n, k, dec) for n = 0..upTo *)
RECURSIVE MMKNSum(_, _, _, _, _)
MMKNSum(lambda, mu, upTo, k, dec) ==
  IF upTo < 0 THEN I(0)
  ELSE Add(MMKNProbability(lambda, mu, upTo, k, dec),
           MMKNSum(lambda, mu, upTo - 1, k, dec))

C9_SystemMinusQueue ==
  LET l == I(args.lambda)
      u == I(args.mu)
      dec == args.decimals
      pre == args.mu > 0 /\ args.lambda >= 0 /\ args.lambda < args.mu
               /\ ValidDecimals(dec)
      tol == Mul(I(2), HalfUlp(dec))
  IN /\ (call = "SSSClientEx" /\ pre) =>
          Within(Sub(ret.v, SSQClientEx(l, u, dec)), Div(l, u), tol)
     /\ (call = "SSQClientEx" /\ pre) =>
          Within(Sub(SSSClientEx(l, u, dec), ret.v), Div(l, u), tol)
     /\ (call = "SSSTimeEx" /\ pre) =>
          Within(Sub(ret.v, SSQTimeEx(l, u, dec)), Div(I(1), u), tol)
     /\ (call = "SSQTimeEx" /\ pre) =>
          Within(Sub(SSSTimeEx(l, u, dec), ret.v), Div(I(1), u), tol)

C9_Witness ==
  /\ call = "SSQClientEx"
  /\ args.lambda = 2
  /\ args.mu = 3
  /\ args.decimals = DefaultDecimals
  /\ ret.v = Num(13333, 10000)

(* C10: Summation(a, a, "n") = a for every integer a, negative included,   *)
(* and Summation(a, b, expression) = 0 whenever b < a, for every           *)
(* expression.                                                             *)
C10_SummationEdges ==
  (call = "Summation" /\ ValidDecimals(args.decimals)) =>
    /\ (args.lowerLimit = args.upperLimit /\ args.expression = ExprN) =>
         ret.v = I(args.lowerLimit)
    /\ args.upperLimit < args.lowerLimit => ret.v = I(0)

C10_Witness ==
  /\ call = "Summation"
  /\ args.lowerLimit = -2
  /\ args.upperLimit = -2
  /\ args.expression = ExprN
  /\ ValidDecimals(args.decimals)
  /\ ret.v = I(-2)

(* C11 as stated: Summation raises "Summation error." wrapping             *)
(* "Undefined symbol x" whenever the expression names a symbol other than  *)
(* n, for every lowerLimit and upperLimit.                                 *)
C11_UndefinedSymbolAlways ==
  (call = "Summation" /\ args.expression = ExprX) =>
    (Thrown(ret) /\ ret.v.msg = <<CtxSummation, "Undefined symbol x">>)

(* C11 amended: Summation raises "Summation error." wrapping               *)
(* "Undefined symbol x" whenever the expression names a symbol other than  *)
(* n and lowerLimit <= upperLimit, so that the expression is evaluated at  *)
(* least once.                                                             *)
C11_UndefinedSymbolNonEmpty ==
  (call = "Summation" /\ args.expression = ExprX
     /\ args.lowerLimit <= args.upperLimit) =>
    (Thrown(ret) /\ ret.v.msg = <<CtxSummation, "Undefined symbol x">>)

C11_Witness ==
  /\ call = "Summation"
  /\ args.expression = ExprX
  /\ args.lowerLimit = -3
  /\ args.upperLimit = -1
  /\ Thrown(ret)
  /\ ret.v.msg = <<CtxSummation, "Undefined symbol x">>

(* x is a multiple of 10^-dec *)
OnGrid(x, dec) == IsNum(x) /\ (x.n * IPow(10, dec)) % x.d = 0

(* x is y rounded to dec decimals *)
RoundedTo(x, y, dec) == OnGrid(x, dec) /\ Within(x, y, HalfUlp(dec))

C14_HalfHour ==
  (call = "Convert" /\ ValidDecimals(args.decimals)
     /\ <<args.sourceValue, args.sourceUnit, args.targetUnit>> = <<30, 60, 3600>>) =>
    ret.v = Num(1, 2)

(* the number a percent text starts with *)
NumberIn(s) == [s EXCEPT !.t = "num"]

(* C15: Percent(value, total, type, decimals) with type true or MULTIPLY   *)
(* returns the text of value * total rounded to `decimals` followed by     *)
(* the percent sign, with type false or DIVISION the text of               *)
(* (value / total) * 100 rounded followed by the percent sign, and fails   *)
(* when total = 0; Percent(0.25) and Percent(0.75) are "25%" and "75%",    *)
(* Percent(25, 100, DIVISION) and Percent(50, 200, false) are "25%".       *)
C15_PercentContract ==
  (call = "Percent" /\ ValidDecimals(args.decimals)) =>
    LET v == args.value
        tot == args.total
        ty == args.type
        dec == args.decimals
    IN /\ tot = 0 => Thrown(ret)
       /\ (tot # 0 /\ ty \in {"true", "MULTIPLY"}) =>
            /\ ret.v.t = "num%"
            /\ RoundedTo(NumberIn(ret.v), Mul(v, I(tot)), dec)
       /\ (tot # 0 /\ ty \in {"false", "DIVISION"}) =>
            /\ ret.v.t = "num%"
            /\ RoundedTo(NumberIn(ret.v), Mul(Div(v, I(tot)), I(100)), dec)
       /\ (v = Num(1, 4) /\ tot = 100 /\ ty = "true") => ret.v = PercentText(I(25))
       /\ (v = Num(3, 4) /\ tot = 100 /\ ty = "true") => ret.v = PercentText(I(75))
       /\ (v = I(25) /\ tot = 100 /\ ty = "DIVISION") => ret.v = PercentText(I(25))
       /\ (v = I(50) /\ tot = 200 /\ ty = "false") => ret.v = PercentText(I(25))

C15_Witness ==
  /\ call = "Percent"
  /\ args.value = Num(3, 4)
  /\ args.total = 100
  /\ args.type = "true"
  /\ args.decimals = DefaultDecimals
  /\ ret.v = PercentText(I(75))

(* What two roundings to DefaultDecimals allow between x and the inverse   *)
(* of y = Inverse(x): half a unit of the last decimal of y carried through *)
(* the second division, |x / y| times as large, and half a unit for the    *)
(* second rounding.                                                        *)
InverseTolerance(x, y) ==
  Mul(HalfUlp(DefaultDecimals), Add(I(1), Abs(Div(x, y))))

(* the second call of Inverse(Inverse(x)), made on the outcome of the      *)
(* first, succeeds and gives x back within the tolerance                   *)
RoundTrips ==
  LET back == Inverse(ret.v, DefaultDecimals)
  IN /\ IsNum(ret.v)
     /\ IsNum(back)
     /\ Within(back, args.val, InverseTolerance(args.val, ret.v))

(* C16 as stated: for every x # 0, Inverse(Inverse(x)) with the default 4  *)
(* decimals succeeds and equals x within rounding tolerance, and Inverse   *)
(* fails only for val = 0.                                                 *)
C16_InverseRoundTripAlways ==
  call = "Inverse" =>
    /\ Thrown(ret) => IsZero(args.val)
    /\ (~IsZero(args.val) /\ args.decimals = DefaultDecimals) => RoundTrips

(* C16 amended: for every x # 0 whose inverse does not round to 0, that is *)
(* |1/x| > 0.00005 or |x| < 20000, Inverse(Inverse(x)) with the default 4  *)
(* decimals succeeds and equals x within rounding tolerance; with          *)
(* decimals in 0..15 Inverse fails only for val = 0.                       *)
C16_InverseRoundTripBounded ==
  call = "Inverse" =>
    /\ (Thrown(ret) /\ ValidDecimals(args.decimals)) => IsZero(args.val)
    /\ (~IsZero(args.val) /\ args.decimals = DefaultDecimals
         /\ Lt(HalfUlp(DefaultDecimals), Abs(Div(I(1), args.val)))) => RoundTrips

C16_Witness ==
  /\ call = "Inverse"
  /\ args.val = I(3)
  /\ args.decimals = DefaultDecimals
  /\ ret.v = Num(3333, 10000)
  /\ Inverse(ret.v, DefaultDecimals) = Num(30003, 10000)

MMSKBeyond(n, k) ==
  \/ /\ call \in {"MMSKQtyServerBusy", "MMSKNProbability"}
     /\ args.mu # 0
     /\ args.serverSize >= 1
     /\ k >= args.serverSize + 1
     /\ n > k
  \/ /\ call = "MMSKNLambda"
     /\ k >= 2
     /\ n > k

MMSKWithin(n, k) ==
  /\ call = "MMSKNLambda"
  /\ k >= 2
  /\ n <= k
  /\ ValidDecimals(args.decimals)

(* C18 as stated: in the M/M/s/k model with mu # 0, s >= 1 and             *)
(* k >= s + 1, MMSKNLambda, MMSKQtyServerBusy and MMSKNProbability return  *)
(* 0 for every iteration n > k, and for every n <= k MMSKNLambda returns   *)
(* the arrival rate lambda unchanged.                                      *)
C18_MMSKCutoffUnchanged ==
  /\ MMSKBeyond(args.iteration, args.limit) => ret.v = I(0)
  /\ MMSKWithin(args.iteration, args.limit) => ret.v = args.lambda

(* C18 amended: in the M/M/s/k model with mu # 0, s >= 1 and k >= s + 1,   *)
(* MMSKNLambda, MMSKQtyServerBusy and MMSKNProbability return 0 for every  *)
(* iteration n > k, and for every n <= k MMSKNLambda returns the arrival   *)
(* rate lambda rounded to `decimals` (decimals in 0..15).                  *)
C18_MMSKCutoffRounded ==
  /\ MMSKBeyond(args.iteration, args.limit) => ret.v = I(0)
  /\ MMSKWithin(args.iteration, args.limit) =>
       RoundedTo(ret.v, args.lambda, args.decimals)

C18_Witness ==
  /\ call = "MMSKNProbability"
  /\ args.lambda = 2
  /\ args.mu = 1
  /\ args.serverSize = 1
  /\ args.limit = 2
  /\ args.iteration = 3
  /\ ret.v = I(0)

(* C19: MMKInitialProbability raises an error whenever rho = lambda/mu is  *)
(* 1, and MMKNProbability, MMKQClientEx and MMKQTimeEx, which compute P0,  *)
(* raise an error for the same inputs instead of returning a number; with  *)
(* a limit other than 0 the error is the one of rho = 1.                   *)
C19_RhoOneRaises ==
  (call \in {"MMKInitialProbability", "MMKNProbability", "MMKQClientEx", "MMKQTimeEx"}
     /\ args.mu # 0 /\ args.lambda = args.mu) =>
    /\ Thrown(ret)
    /\ args.limit # 0 => ret.v.msg[Len(ret.v.msg)] = MsgRhoOne

C19_Witness ==
  /\ call = "MMKQTimeEx"
  /\ args.lambda = 2
  /\ args.mu = 2
  /\ args.limit = 2
  /\ Thrown(ret)
  /\ ret.v.msg[Len(ret.v.msg)] = MsgRhoOne

(* C21: a dispatcher operation called with a model selector outside 1..5   *)
(* (InitialProbability with model 6, say) returns the envelope with a      *)
(* null result and the message "Invalid queuing model selected.".          *)
C21_InvalidModelEnvelope ==
  (call \in DispatcherOps /\ args.model \notin 1..5) =>
    (ret.env /\ IsNull(ret.v) /\ ret.message = MsgInvalidModel)

(* C22: for model 1, QClientEx, SClientEx, QTimeEx and STimeEx hand the    *)
(* caller's `decimals` to the M/M/1 function as its rounding precision:    *)
(* the envelope holds what the function returns for (lambda, mu, decimals) *)
(* and the call fails exactly when that function fails.                    *)
C22_ModelOneDecimals ==
  (call \in {"QClientEx", "SClientEx", "QTimeEx", "STimeEx"} /\ args.model = 1) =>
    LET expected == PerModel(call, args, args.decimals)
    IN /\ Thrown(ret) <=> IsErr(expected)
       /\ ~Thrown(ret) => (ret.env /\ ret.v = expected)

(* the value of the expression with the variable n bound to the value i *)
ValueAt(e, i) ==
  CASE e.kind = "n" -> I(i)
    [] e.kind = "n^2" -> Mul(I(i), I(i))
    [] e.kind = "(n+1)/2" -> Num(i + 1, 2)

RECURSIVE SumOver(_, _, _)
SumOver(a, b, e) == IF a > b THEN I(0) ELSE Add(ValueAt(e, a), SumOver(a + 1, b, e))

(* C23: for integer limits a <= b, negative values included, and an        *)
(* arithmetic expression in n, Summation(a, b, expression) returns the sum *)
(* over i = a..b of the expression with n bound to the value i; so         *)
(* Summation(-2, 2, "n^2") is 10.                                          *)
C23_SummationBindsN ==
  (call = "Summation" /\ ValidDecimals(args.decimals)
     /\ args.lowerLimit <= args.upperLimit
     /\ args.expression \in {ExprN, ExprNSquare, ExprHalf}) =>
    RoundedTo(ret.v, SumOver(args.lowerLimit, args.upperLimit, args.expression),
              args.decimals)

(* C24: with mu # 0, s >= 1 and n >= 0, MMSKQtyServerBusy and              *)
(* MMSKNProbability accept every limit k >= s, the case k = s included,    *)
(* and return a number.                                                    *)
C24_LimitEqualServers ==
  (call \in {"MMSKQtyServerBusy", "MMSKNProbability"}
     /\ args.mu # 0 /\ args.serverSize >= 1 /\ args.iteration >= 0
     /\ args.limit >= args.serverSize /\ ValidDecimals(args.decimals)) =>
    IsNum(ret.v)

(* C25: a function called with a `decimals` that is not an integer in      *)
(* 0..15 fails with an error on every path, the path of MMKQtyServerBusy   *)
(* that returns the constant 0 for n > k included.                         *)
C25_InvalidDecimalsFail ==
  (call \in MMKOps /\ ~ValidDecimals(args.decimals)) => Thrown(ret)

(* C26: no formula function returns a value that is not finite (NaN or     *)
(* an infinity): an input that makes a denominator zero, such as           *)
(* lambda = 0 in Wq = Lq / lambda of MMKQTimeEx and MMKSTimeEx or rho = 1  *)
(* in MMKSClientEx, is rejected with an error.                             *)
C26_NoNonFiniteResult ==
  call \in MMKOps => (Thrown(ret) \/ IsNum(ret.v))

(* MMSKNProbability(lambda, mu, s, 0, k) + ... + MMSKNProbability(lambda,  *)
(* mu, s, upTo, k)                                                         *)
RECURSIVE MMSKNSum(_, _, _, _, _, _)
MMSKNSum(lambda, mu, s, upTo, k, dec) ==
  IF upTo < 0 THEN I(0)
  ELSE Add(MMSKNSum(lambda, mu, s, upTo - 1, k, dec),
           MMSKNProbability(lambda, mu, s, upTo, k, dec))

(* C27: for M/M/s/k with mu # 0, lambda >= 0, s >= 1 and k >= s + 1, the   *)
(* state probabilities MMSKNProbability(lambda, mu, s, n, k) for n = 0..k  *)
(* each lie in [0, 1] and sum to 1, up to the rounding of the k + 1        *)
(* values.                                                                 *)
C27_MMSKProbabilitiesSumToOne ==
  (call = "MMSKNProbability" /\ ValidDecimals(args.decimals)
     /\ args.mu # 0 /\ args.lambda >= 0 /\ args.serverSize >= 1
     /\ args.limit >= args.serverSize + 1 /\ args.iteration \in 0..args.limit) =>
    /\ IsNum(ret.v)
    /\ Le(I(0), ret.v)
    /\ Le(ret.v, I(1))
    /\ Within(MMSKNSum(I(args.lambda), I(args.mu), args.serverSize, args.limit,
                       args.limit, args.decimals),
              I(1), Mul(I(args.limit + 1), HalfUlp(args.decimals)))

(* C28: the n-probability at n = 0 is the initial probability P0 of the    *)
(* same parameters: MMSNProbability(lambda, mu, s, 0) is                   *)
(* MMSInitialProbability(lambda, mu, s), and the M/M/1/k and M/M/s/k       *)
(* functions agree in the same way.                                        *)
C28_ZeroIsInitial ==
  (call = "MMSNProbability" /\ args.iteration = 0
     /\ args.lambda >= 0 /\ args.mu > 0
     /\ args.serverSize >= 1 /\ ValidDecimals(args.decimals)) =>
    ret.v = MMSInitialProbability(I(args.lambda), I(args.mu), args.serverSize,
                                  args.decimals)

----------------------------------------------------------------------------
(* One server: the multi-server functions against the single-server ones *)

OneServerOps ==
  {"MMSInitialProbability", "MMSQClientEx", "MMSSClientEx", "MMSQTimeEx", "MMSSTimeEx"}

OneServerLimitOps == {"MMSKInitialProbability", "MMSKQClientEx", "MMSKSClientEx"}

(* the single-server function that corresponds to a multi-server one *)
SingleServerPeer(op, a) ==
  LET l == I(a.lambda)
      u == I(a.mu)
      dec == a.decimals
  IN CASE op = "MMSInitialProbability" -> SSInitialProbability(l, u, dec)
       [] op = "MMSQClientEx" -> SSQClientEx(l, u, dec)
       [] op = "MMSSClientEx" -> SSSClientEx(l, u, dec)
       [] op = "MMSQTimeEx" -> SSQTimeEx(l, u, dec)
       [] op = "MMSSTimeEx" -> SSSTimeEx(l, u, dec)
       [] op = "MMSKInitialProbability" -> MMKInitialProbability(l, u, a.limit, dec)
       [] op = "MMSKQClientEx" -> MMKQClientEx(l, u, a.limit, dec)
       [] op = "MMSKSClientEx" -> MMKSClientEx(l, u, a.limit, dec)

OneServerCase ==
  /\ args.serverSize = 1
  /\ args.lambda > 0
  /\ args.lambda < args.mu
  /\ ValidDecimals(args.decimals)
  /\ \/ call \in OneServerOps
     \/ call \in OneServerLimitOps /\ args.limit >= 2

(* C29: with serverSize = 1, mu > 0 and 0 < lambda < mu, each of the five
   M/M/s functions returns the value its M/M/1 counterpart returns for the same
   rates and decimals, and for limit k >= 2 each of the three M/M/s/k functions
   returns the value its M/M/1/k counterpart returns; the shared rounding makes
   equal results the same as equal exact values. *)
C29_OneServerAgrees ==
  OneServerCase => (IsNum(ret.v) /\ ret.v = SingleServerPeer(call, args))

C29_Witness ==
  /\ call = "MMSKSClientEx"
  /\ OneServerCase
  /\ args.limit = MaxLimit + 1
  /\ IsNum(ret.v)
  /\ ~IsZero(ret.v)

----------------------------------------------------------------------------
(* Little's law: expected populations against expected times *)

LittleOps ==
  {"SSSTimeEx", "SSQTimeEx", "MMSSTimeEx", "MMSQTimeEx",
   "MMKSTimeEx", "MMKQTimeEx", "MGSTimeEx", "MGQTimeEx"}

(* the expected population of the same model, place and arguments *)
PopulationOf(op, a) ==
  LET l == I(a.lambda)
      u == I(a.mu)
      dec == a.decimals
  IN CASE op = "SSSTimeEx" -> SSSClientEx(l, u, dec)
       [] op = "SSQTimeEx" -> SSQClientEx(l, u, dec)
       [] op = "MMSSTimeEx" -> MMSSClientEx(l, u, a.serverSize, dec)
       [] op = "MMSQTimeEx" -> MMSQClientEx(l, u, a.serverSize, dec)
       [] op = "MMKSTimeEx" -> MMKSClientEx(l, u, a.limit, dec)
       [] op = "MMKQTimeEx" -> MMKQClientEx(l, u, a.limit, dec)
       [] op = "MGSTimeEx" -> MGSClientEx(l, u, I(a.variation), dec)
       [] op = "MGQTimeEx" -> MGQClientEx(l, u, I(a.variation), dec)

(* lambda > 0, mu > 0 and rho = lambda / (s * mu) < 1, with s = 1 outside M/M/s *)
LittleCase ==
  /\ call \in LittleOps
  /\ args.lambda > 0
  /\ args.mu > 0
  /\ ValidDecimals(args.decimals)
  /\ IF call \in {"MMSSTimeEx", "MMSQTimeEx"}
       THEN args.serverSize >= 1 /\ args.lambda < args.serverSize * args.mu
       ELSE args.lambda < args.mu
  /\ call \in {"MMKSTimeEx", "MMKQTimeEx"} => args.limit >= 1

(* C30: for M/M/1, M/M/s, M/M/1/k and M/G/1 with lambda > 0, mu > 0 and
   rho < 1, lambda times the expected time in the system (in the queue) is the
   expected population of the system (of the queue) of the same model: exactly
   at the internal precision, where no rounding takes place, and within the two
   rounding errors (1 + lambda) * 0.5 * 10^-decimals at a smaller precision. *)
C30_LittlesLaw ==
  LittleCase =>
    /\ IsNum(ret.v)
    /\ IF args.decimals = InternalDecimals
         THEN Mul(I(args.lambda), ret.v) = PopulationOf(call, args)
         ELSE Within(PopulationOf(call, args), Mul(I(args.lambda), ret.v),
                     Mul(I(args.lambda + 1), HalfUlp(args.decimals)))

C30_Witness ==
  /\ call = "MGSTimeEx"
  /\ LittleCase
  /\ args.variation = 1
  /\ args.decimals = InternalDecimals
  /\ IsNum(ret.v)
  /\ ~IsZero(ret.v)

====
